---- MODULE Spec2Model ----
(***************************************************************************)
(* A model of the WhatsApp channel account runtime of moltis               *)
(* (crates/whatsapp): the access gate, the self-echo guard, the inbound    *)
(* message handler with its OTP escalation flow, the outbound sender and   *)
(* the plugin facade's config hot-update.                                  *)
(*                                                                         *)
(* Strings are modelled as sequences: a text is a sequence of characters,  *)
(* an identifier such as "user@server" is the sequence <<user, server>>    *)
(* and a bare user part is <<user>>.  Option<T> is a sequence of length    *)
(* at most one.                                                            *)
(***************************************************************************)
EXTENDS Integers, Sequences, FiniteSets, TLC

VARIABLES
    \* ---- access gate exercised as a pure function (SpecAccess) ----
    acfg,       \* the config handed to check_access
    acheck,     \* Option: the last check_access call, its inputs and result
    aedit,      \* what the last config edit did
    \* ---- the account runtime (Spec, SpecOtp) ----
    accounts,   \* AccountStateMap: account id -> AccountState (the registry)
    state_ref,  \* account id -> the Arc<AccountState> the event callback holds
    now,        \* the clock, in seconds
    next_id,    \* the id the transport assigns to the next successful send
    send_cap,   \* successful sends the transport performs in this run
    pc,         \* handler task -> where it is in handle_otp_flow
    last,       \* what the most recent handler step did
    otp_calls,  \* peer -> the OTP manager calls made for it since its
                \* challenge was created, with their results
    tokens,     \* the cancellation tokens created so far: TRUE when cancelled
    tasks,      \* the event-loop tasks spawned so far
    probe_cache,\* account id -> the cached health snapshot and its time
    life,       \* the last facade call or connection event, and what the
                \* connection events of each started account have been
    \* ---- the protocol stores (SpecStore) ----
    family,     \* the record family the run operates on
    mem,        \* the MemoryStore
    sled,       \* the sled database on disk: tree name -> key -> bytes
    sled_handle,\* Option: the open SledStore (its in-memory device_id counter)
    store_epoch,\* how often the sled store was closed and reopened
    store_ret,  \* the last store operation and what each backend returned
    shadow,     \* what the caller wrote, by the keys it used
    \* ---- pure functions applied to drawn inputs ----
    calc,       \* the input drawn and, once applied, what the function gave
    \* ---- operations as the steps they take on locks and await points ----
    thr         \* task -> the operation it runs, where it is in it, and the
                \* locks it holds

accessVars == <<acfg, acheck, aedit>>

lifeVars == <<tokens, tasks, probe_cache, life>>

runtimeVars ==
    <<accounts, state_ref, now, next_id, send_cap, pc, last, otp_calls,
      tokens, tasks, probe_cache, life>>

storeVars == <<family, mem, sled, sled_handle, store_epoch, store_ret, shadow>>

benchVars == <<calc, thr>>

vars ==
    <<acfg, acheck, aedit, accounts, state_ref, now, next_id, send_cap, pc, last, otp_calls,
      tokens, tasks, probe_cache, life,
      family, mem, sled, sled_handle, store_epoch, store_ret, shadow, calc, thr>>

None == <<>>

Some(x) == <<x>>

is_some(o) == Len(o) = 1

unwrap(o) == o[1]

(***************************************************************************)
(* Bounds.                                                                 *)
(***************************************************************************)
\* longest allowlist an edit may build
MaxAllow == 2

\* successful sends the transport performs in one run
MaxSends == 2

\* successful sends in one run of the OTP specification
MaxOtpSends == 1

\* the clock stops here
MaxClock == 300

\* handler tasks that may run handle_message at the same time
NumHandlers == 2

\* close-and-reopen cycles of the sled store in one run
MaxReopens == 2

\* DeviceStore::create calls in one run
MaxCreates == 3

\* put_mutation_macs calls in one run
MaxMacPuts == 2

\* recipients recorded for one group
MaxRecipients == 2

\* successful start_account calls in one run
MaxStarts == 2

\* message ids recorded in one run of the sent-id buffer
MaxRecorded == 258

\* the longest text has_bot_watermark is applied to
MaxText == 5

\* the longest text field of a message handed to watermark_message
MaxField == 1

\* the clock value after which SpecProbe lets no more time pass
MaxProbeClock == 60

\* the clock value after which SpecBeat lets no more time pass
MaxBeatClock == 10

(***************************************************************************)
(* config.rs: WhatsAppAccountConfig (the fields the runtime reads).        *)
(***************************************************************************)
DmPolicy == {"Disabled", "Open", "Allowlist"}

GroupPolicy == {"Disabled", "Open", "Allowlist"}

WhatsAppAccountConfig(dm, gp, al, gal, otp, cool, model) ==
    [dm_policy |-> dm, group_policy |-> gp, allowlist |-> al,
     group_allowlist |-> gal, otp_self_approval |-> otp,
     otp_cooldown_secs |-> cool, model |-> model]

\* Default for WhatsAppAccountConfig: Allowlist DMs, open groups, empty lists,
\* OTP self-approval on, 300 s cooldown.
DefaultConfig ==
    WhatsAppAccountConfig("Allowlist", "Open", <<>>, <<>>, TRUE, 300, None)

(***************************************************************************)
(* moltis_channels::gating::is_allowed: allowlist membership by exact      *)
(* match.  The user-part match of the data model is obtained by the caller *)
(* passing the JID's user part as `username`.                              *)
(***************************************************************************)
is_allowed(id, list) == \E i \in DOMAIN list : list[i] = id

(***************************************************************************)
(* access.rs                                                               *)
(***************************************************************************)
Ok == "Ok"

\* A plausible slip: an empty DM allowlist read as "no restriction".
check_dm_access_EmptyIsOpen(config, peer_id, username) ==
    CASE config.dm_policy = "Disabled" -> "DmsDisabled"
      [] config.dm_policy = "Open" -> Ok
      [] config.dm_policy = "Allowlist" ->
            IF config.allowlist = <<>>
            THEN Ok
            ELSE IF is_allowed(peer_id, config.allowlist)
                    \/ (is_some(username) /\ is_allowed(unwrap(username), config.allowlist))
                 THEN Ok
                 ELSE "NotOnAllowlist"

check_dm_access(config, peer_id, username) ==
    CASE config.dm_policy = "Disabled" -> "DmsDisabled"
      [] config.dm_policy = "Open" -> Ok
      [] config.dm_policy = "Allowlist" ->
            IF config.allowlist = <<>>
            THEN "NotOnAllowlist"
            ELSE IF is_allowed(peer_id, config.allowlist)
                    \/ (is_some(username) /\ is_allowed(unwrap(username), config.allowlist))
                 THEN Ok
                 ELSE "NotOnAllowlist"

\* A plausible slip: the group branch answers from the DM allowlist check's
\* polarity, allowing a group that is not listed.
check_group_access_Inverted(config, group_id) ==
    CASE config.group_policy = "Disabled" -> "GroupsDisabled"
      [] config.group_policy = "Allowlist" ->
            LET gid == IF is_some(group_id) THEN unwrap(group_id) ELSE <<"">>
            IN  IF config.group_allowlist = <<>>
                   \/ is_allowed(gid, config.group_allowlist)
                THEN "GroupNotOnAllowlist"
                ELSE Ok
      [] config.group_policy = "Open" -> Ok

\* A plausible slip: an empty group allowlist read as "no restriction".
check_group_access_EmptyIsOpen(config, group_id) ==
    CASE config.group_policy = "Disabled" -> "GroupsDisabled"
      [] config.group_policy = "Allowlist" ->
            LET gid == IF is_some(group_id) THEN unwrap(group_id) ELSE <<"">>
            IN  IF config.group_allowlist # <<>>
                   /\ ~is_allowed(gid, config.group_allowlist)
                THEN "GroupNotOnAllowlist"
                ELSE Ok
      [] config.group_policy = "Open" -> Ok

check_group_access(config, group_id) ==
    CASE config.group_policy = "Disabled" -> "GroupsDisabled"
      [] config.group_policy = "Allowlist" ->
            LET gid == IF is_some(group_id) THEN unwrap(group_id) ELSE <<"">>
            IN  IF config.group_allowlist = <<>>
                   \/ ~is_allowed(gid, config.group_allowlist)
                THEN "GroupNotOnAllowlist"
                ELSE Ok
      [] config.group_policy = "Open" -> Ok

check_access(config, is_group, peer_id, username, group_id) ==
    IF is_group
    THEN check_group_access(config, group_id)
    ELSE check_dm_access(config, peer_id, username)

(***************************************************************************)
(* state.rs: the self-echo guard.                                          *)
(***************************************************************************)
SENT_IDS_CAPACITY == 256

ZWJ == "U+200D"

ZWNJ == "U+200C"

BOT_WATERMARK == <<ZWJ, ZWNJ, ZWJ, ZWNJ>>

was_sent_by_us(ids, id) == \E i \in DOMAIN ids : ids[i] = id

\* A plausible slip: the buffer is never trimmed.
record_sent_id_Unbounded(ids, id) == Append(ids, id)

record_sent_id(ids, id) ==
    Append(IF Len(ids) >= SENT_IDS_CAPACITY THEN Tail(ids) ELSE ids, id)

ends_with(text, suffix) ==
    /\ Len(text) >= Len(suffix)
    /\ SubSeq(text, Len(text) - Len(suffix) + 1, Len(text)) = suffix

\* A plausible slip: the marker is looked for anywhere in the text.
has_bot_watermark_Anywhere(text) ==
    \E i \in 1..Len(text) :
        /\ i + Len(BOT_WATERMARK) - 1 <= Len(text)
        /\ SubSeq(text, i, i + Len(BOT_WATERMARK) - 1) = BOT_WATERMARK

has_bot_watermark(text) == ends_with(text, BOT_WATERMARK)

\* wa::Message, the text-carrying fields
watermark_message(msg) ==
    [msg EXCEPT
        !.conversation = IF is_some(@) THEN Some(unwrap(@) \o BOT_WATERMARK) ELSE @,
        !.extended_text = IF is_some(@) THEN Some(unwrap(@) \o BOT_WATERMARK) ELSE @]

\* wa::Message { conversation: Some(text), ..Default::default() }
TextMessage(text) == [conversation |-> Some(text), extended_text |-> None]

(***************************************************************************)
(* crate::otp (OtpState): the challenge manager, as the specification      *)
(* describes it.  challenges and lockouts are maps keyed by peer id.       *)
(***************************************************************************)
OTP_EXPIRY_SECS == 300

OTP_MAX_ATTEMPTS == 3

OTP_CHALLENGE_MSG == <<"To use this bot, enter the verification code.">>

MapPut(f, k, v) == [x \in DOMAIN f \cup {k} |-> IF x = k THEN v ELSE f[x]]

MapRemove(f, k) == [x \in DOMAIN f \ {k} |-> f[x]]

EmptyMap == [x \in {} |-> None]

\* OtpState::new(cooldown_secs)
OtpState_new(cooldown) ==
    [challenges |-> EmptyMap, lockouts |-> EmptyMap, cooldown_secs |-> cooldown]

has_pending(otp, peer) == peer \in DOMAIN otp.challenges

\* A plausible slip: a pending challenge is replaced by a new one.
initiate_Replaces(otp, t, peer, code) ==
    IF peer \in DOMAIN otp.lockouts /\ t < otp.lockouts[peer]
    THEN [result |-> "LockedOut", code |-> None, otp |-> otp]
    ELSE [result |-> "Created", code |-> Some(code),
          otp |-> [otp EXCEPT !.challenges =
                      MapPut(@, peer, [code |-> code,
                                       expires_at |-> t + OTP_EXPIRY_SECS,
                                       attempts |-> 0])]]

\* initiate(peer, username, sender_name); `code` is the generated code
initiate(otp, t, peer, code) ==
    IF peer \in DOMAIN otp.challenges /\ t < otp.challenges[peer].expires_at
    THEN [result |-> "AlreadyPending", code |-> None, otp |-> otp]
    ELSE IF peer \in DOMAIN otp.lockouts /\ t < otp.lockouts[peer]
    THEN [result |-> "LockedOut", code |-> None, otp |-> otp]
    ELSE [result |-> "Created", code |-> Some(code),
          otp |-> [otp EXCEPT !.challenges =
                      MapPut(@, peer, [code |-> code,
                                       expires_at |-> t + OTP_EXPIRY_SECS,
                                       attempts |-> 0])]]

\* A plausible slip: an approved challenge stays in place, so its code can
\* be presented again.
verify_KeepsApproved(otp, t, peer, candidate) ==
    IF peer \notin DOMAIN otp.challenges
    THEN [result |-> "NoPending", attempts_left |-> 0, otp |-> otp]
    ELSE LET c == otp.challenges[peer]
         IN  IF t >= c.expires_at
             THEN [result |-> "Expired", attempts_left |-> 0,
                   otp |-> [otp EXCEPT !.challenges = MapRemove(@, peer)]]
             ELSE IF c.code = candidate
             THEN [result |-> "Approved", attempts_left |-> 0, otp |-> otp]
             ELSE IF c.attempts + 1 >= OTP_MAX_ATTEMPTS
             THEN [result |-> "LockedOut", attempts_left |-> 0,
                   otp |-> [otp EXCEPT
                               !.challenges = MapRemove(@, peer),
                               !.lockouts = MapPut(@, peer, t + otp.cooldown_secs)]]
             ELSE [result |-> "WrongCode",
                   attempts_left |-> OTP_MAX_ATTEMPTS - (c.attempts + 1),
                   otp |-> [otp EXCEPT !.challenges[peer].attempts = c.attempts + 1]]

\* verify(peer, candidate)
verify(otp, t, peer, candidate) ==
    IF peer \notin DOMAIN otp.challenges
    THEN [result |-> "NoPending", attempts_left |-> 0, otp |-> otp]
    ELSE LET c == otp.challenges[peer]
         IN  IF t >= c.expires_at
             THEN [result |-> "Expired", attempts_left |-> 0,
                   otp |-> [otp EXCEPT !.challenges = MapRemove(@, peer)]]
             ELSE IF c.code = candidate
             THEN [result |-> "Approved", attempts_left |-> 0,
                   otp |-> [otp EXCEPT !.challenges = MapRemove(@, peer)]]
             ELSE IF c.attempts + 1 >= OTP_MAX_ATTEMPTS
             THEN [result |-> "LockedOut", attempts_left |-> 0,
                   otp |-> [otp EXCEPT
                               !.challenges = MapRemove(@, peer),
                               !.lockouts = MapPut(@, peer, t + otp.cooldown_secs)]]
             ELSE [result |-> "WrongCode",
                   attempts_left |-> OTP_MAX_ATTEMPTS - (c.attempts + 1),
                   otp |-> [otp EXCEPT !.challenges[peer].attempts = c.attempts + 1]]

(***************************************************************************)
(* handlers.rs: the inbound message handler.                               *)
(***************************************************************************)
Jid(user, server) == [user |-> user, server |-> server]

\* Jid::to_string: "user@server"
to_string(jid) == <<jid.user, jid.server>>

\* JidExt::is_same_user_as
is_same_user_as(a, b) == a.user = b.user

is_owner_user(jid, own_pn, own_lid) ==
    \/ (is_some(own_pn) /\ is_same_user_as(unwrap(own_pn), jid))
    \/ (is_some(own_lid) /\ is_same_user_as(unwrap(own_lid), jid))

\* msg.conversation, else msg.extended_text_message.text, else ""
message_text(msg) ==
    IF is_some(msg.conversation) THEN unwrap(msg.conversation)
    ELSE IF is_some(msg.extended_text) THEN unwrap(msg.extended_text)
    ELSE <<>>

\* Option::unwrap_or
unwrap_or(o, d) == IF is_some(o) THEN unwrap(o) ELSE d

\* A plausible slip: text is looked at before the media parts.
classify_message_TextFirst(msg, text) ==
    IF text # <<>> THEN "Text"
    ELSE IF is_some(msg.image) THEN "Photo"
    ELSE IF is_some(msg.audio)
    THEN IF unwrap_or(unwrap(msg.audio).ptt, FALSE) THEN "Voice" ELSE "Audio"
    ELSE IF is_some(msg.video) THEN "Video"
    ELSE IF is_some(msg.document) THEN "Document"
    ELSE IF is_some(msg.location) \/ is_some(msg.live_location) THEN "Location"
    ELSE "Other"

classify_message(msg, text) ==
    IF is_some(msg.image) THEN "Photo"
    ELSE IF is_some(msg.audio)
    THEN IF is_some(msg.audio) /\ unwrap_or(unwrap(msg.audio).ptt, FALSE)
         THEN "Voice" ELSE "Audio"
    ELSE IF is_some(msg.video) THEN "Video"
    ELSE IF is_some(msg.document) THEN "Document"
    ELSE IF is_some(msg.location) \/ is_some(msg.live_location) THEN "Location"
    ELSE IF text # <<>> THEN "Text"
    ELSE "Other"

\* info.source.is_from_me || (is_self_chat && sender_is_owner)
from_me_or_owner(msg, own_pn, own_lid) ==
    \/ msg.is_from_me
    \/ (/\ is_owner_user(msg.chat, own_pn, own_lid)
        /\ is_owner_user(msg.sender, own_pn, own_lid))

\* A plausible slip: a from-me message is taken for an echo only by its id
\* or watermark, so from-me traffic of other chats is processed.
is_self_echo_IgnoresChat(state, msg, own_pn, own_lid) ==
    /\ from_me_or_owner(msg, own_pn, own_lid)
    /\ \/ was_sent_by_us(state.recent_sent_ids, msg.id)
       \/ has_bot_watermark(message_text(msg))

\* the early return of handle_message: "ignoring self-sent message"
is_self_echo(state, msg, own_pn, own_lid) ==
    /\ from_me_or_owner(msg, own_pn, own_lid)
    /\ \/ ~is_owner_user(msg.chat, own_pn, own_lid)
       \/ was_sent_by_us(state.recent_sent_ids, msg.id)
       \/ has_bot_watermark(message_text(msg))

\* A plausible slip: the owner's self-chat goes through the access gate
\* like any other message.
access_result_NoBypass(state, msg, is_owner_self_chat) ==
    [consulted |-> TRUE,
     result |-> check_access(state.config, msg.is_group, to_string(msg.sender),
                             Some(<<msg.sender.user>>),
                             IF msg.is_group THEN Some(to_string(msg.chat)) ELSE None)]

\* access_result of handle_message, and whether check_access was called
\* to obtain it
access_result(state, msg, is_owner_self_chat) ==
    IF is_owner_self_chat
    THEN [consulted |-> FALSE, result |-> Ok]
    ELSE [consulted |-> TRUE,
          result |-> check_access(state.config, msg.is_group, to_string(msg.sender),
                                  Some(<<msg.sender.user>>),
                                  IF msg.is_group THEN Some(to_string(msg.chat))
                                                  ELSE None)]

\* char::is_whitespace, for the characters of the model
is_whitespace(c) == c = " "

RECURSIVE trim_start(_)
trim_start(t) ==
    IF t # <<>> /\ is_whitespace(Head(t)) THEN trim_start(Tail(t)) ELSE t

RECURSIVE trim_end(_)
trim_end(t) ==
    IF t # <<>> /\ is_whitespace(t[Len(t)])
    THEN trim_end(SubSeq(t, 1, Len(t) - 1))
    ELSE t

\* str::trim
trim(t) == trim_end(trim_start(t))

is_ascii_digit(c) == c \in {"0", "1", "2", "3", "4", "5", "6", "7", "8", "9"}

\* UTF-8 width of a character: the joiners take three bytes, an accented
\* letter two
utf8_len(c) == IF c \in {ZWJ, ZWNJ} THEN 3 ELSE IF c = "U+00E9" THEN 2 ELSE 1

RECURSIVE byte_len(_)
\* str::len
byte_len(t) == IF t = <<>> THEN 0 ELSE utf8_len(Head(t)) + byte_len(Tail(t))

\* A plausible slip: any run of digits is taken for a code.
is_otp_candidate_AnyLength(body) ==
    /\ trim(body) # <<>>
    /\ \A i \in DOMAIN trim(body) : is_ascii_digit(trim(body)[i])

\* trimmed.len() == 6 && trimmed.chars().all(|c| c.is_ascii_digit())
is_otp_candidate(body) ==
    /\ byte_len(trim(body)) = 6
    /\ \A i \in DOMAIN trim(body) : is_ascii_digit(trim(body)[i])

AccountIds == {"wa1"}

Handlers == 1..NumHandlers

Idle == [stage |-> "idle", account |-> "", msg |-> None]

\* what one handler step did, with the inputs it ran on
StepRecord(stage, h, a, msg, own_pn, own_lid) ==
    [stage |-> stage, h |-> h, account |-> a, msg |-> Some(msg),
     own_pn |-> own_pn, own_lid |-> own_lid,
     at |-> now,               \* the clock when the step ran
     dropped |-> FALSE,        \* returned as a self echo
     owner |-> FALSE,          \* is_owner_self_chat
     checked |-> FALSE,        \* check_access was called
     access |-> "n/a",         \* access_result
     reg_config |-> None,      \* the registry's config of the account at that time
     id_in_buffer |-> FALSE,   \* msg.id was in the handler's recent_sent_ids
     id_was_sent |-> FALSE,    \* msg.id is the id of an earlier successful send
     logged |-> None,          \* access_granted of the MessageLogEntry written
     events |-> <<>>,          \* ChannelEvents emitted
     replies |-> <<>>,         \* texts handed to the transport client
     dispatched |-> <<>>,      \* dispatch_to_chat / dispatch_command calls
     kind |-> "none",          \* message_kind, once the message is routed by kind
     downloads |-> <<>>,       \* the media parts downloaded
     location_updates |-> <<>>,\* update_location calls
     resolved |-> FALSE,       \* what update_location answered
     otp |-> "none"]           \* the OTP manager call made and its result

NoStep ==
    [StepRecord("none", 0, "", TextMessage(<<>>), None, None) EXCEPT !.msg = None]

ChannelEvent(type, peer, granted, code, expires_at) ==
    [type |-> type, peer |-> peer, access_granted |-> granted,
     code |-> code, expires_at |-> expires_at]

\* what AccountState::send_message hands to the transport for a text
Outgoing(text, ok) ==
    [text |-> message_text(watermark_message(TextMessage(text))), ok |-> ok]

\* the message as the initiate branch of handle_otp_flow uses it: the
\* sender and the chat, not the body
WithoutBody(msg) == [msg EXCEPT !.conversation = None, !.extended_text = None]

RegConfig(a) == IF a \in DOMAIN accounts THEN Some(accounts[a].config) ELSE None

\* what a per-kind handler did: the reply handed to send_message, the calls
\* to the event sink's dispatchers, the downloads, the update_location
\* calls, and which answers of the collaborators it asked for
Effects(reply, dispatched, downloads, location_updates, asked) ==
    [reply |-> reply, dispatched |-> dispatched, downloads |-> downloads,
     location_updates |-> location_updates, asked |-> asked]

NoEffects == Effects(None, <<>>, <<>>, <<>>, {})

\* sink.dispatch_to_chat(text, reply_to, meta), when an event sink is set
dispatch_to_chat(state, text) ==
    IF state.event_sink
    THEN <<[kind |-> "chat", text |-> text, model |-> state.config.model]>>
    ELSE <<>>

\* sink.dispatch_to_chat_with_attachments(text, attachments, reply_to, meta)
dispatch_to_chat_with_attachments(state, text) ==
    IF state.event_sink
    THEN <<[kind |-> "attachments", text |-> text, model |-> state.config.model]>>
    ELSE <<>>

handle_photo(state, msg, env) ==
    LET caption == unwrap_or(unwrap(msg.image).caption, <<>>)
        fallback == IF caption = <<>> THEN <<"[Photo - download failed]">> ELSE caption
    IN  Effects(None,
                IF env.download_ok
                THEN dispatch_to_chat_with_attachments(state, caption)
                ELSE dispatch_to_chat(state, fallback),
                <<"image">>, <<>>, {"download_ok"})

capitalize(str) ==
    IF str = "voice" THEN "Voice" ELSE IF str = "audio" THEN "Audio" ELSE str

handle_voice_audio(state, msg, kind, env) ==
    LET kind_label == IF kind = "Voice" THEN "voice" ELSE "audio"
        stt_available == state.event_sink /\ env.stt
        asked_stt == IF state.event_sink THEN {"stt"} ELSE {}
    IN  IF ~stt_available
        THEN Effects(Some(<<"I received your ", kind_label,
                            " message but voice transcription is not available. Please send a text message instead.">>),
                     <<>>, <<>>, <<>>, asked_stt)
        ELSE IF env.download_ok
        THEN Effects(None,
                     dispatch_to_chat(state,
                        IF env.transcribe_ok THEN <<"transcribed">>
                        ELSE <<"[", capitalize(kind_label),
                               " message - transcription failed]">>),
                     <<"audio">>, <<>>, {"stt", "download_ok", "transcribe_ok"})
        ELSE Effects(Some(<<"I received your ", kind_label,
                            " message but couldn't download the audio. Please try again.">>),
                     <<>>, <<"audio">>, <<>>, {"stt", "download_ok"})

handle_video(state, msg) ==
    LET video == unwrap(msg.video)
        caption == unwrap_or(video.caption, <<>>)
    IN  IF is_some(video.jpeg_thumbnail) /\ unwrap(video.jpeg_thumbnail) # <<>>
        THEN Effects(None,
                     dispatch_to_chat_with_attachments(state,
                        IF caption = <<>> THEN <<"[Video message - thumbnail shown]">>
                        ELSE caption \o <<"\n[Video message - thumbnail shown]">>),
                     <<>>, <<>>, {})
        ELSE Effects(None,
                     dispatch_to_chat(state,
                        IF caption = <<>>
                        THEN <<"[Video message received - video playback not supported]">>
                        ELSE caption \o <<"\n[Video message - playback not supported]">>),
                     <<>>, <<>>, {})

handle_document(state, msg) ==
    LET doc == unwrap(msg.document)
        caption == unwrap_or(doc.caption, <<>>)
        filename == unwrap_or(doc.file_name, "unknown")
        mime == unwrap_or(doc.mimetype, "application/octet-stream")
    IN  Effects(None,
                dispatch_to_chat(state,
                    IF caption = <<>>
                    THEN <<"[Document received: ", filename, " (", mime, ")]">>
                    ELSE caption \o <<"\n[Document: ", filename, " (", mime, ")]">>),
                <<>>, <<>>, {})

\* A plausible slip: an unresolved live location falls through to the
\* plain-text forwarding.
handle_location_ForwardsLive(state, msg, env) ==
    LET loc == IF is_some(msg.location) THEN unwrap(msg.location)
               ELSE unwrap(msg.live_location)
        lat == unwrap_or(loc.degrees_latitude, "0")
        lon == unwrap_or(loc.degrees_longitude, "0")
        resolved == state.event_sink /\ env.resolved
        tried == IF state.event_sink THEN <<[lat |-> lat, lon |-> lon]>> ELSE <<>>
        asked == IF state.event_sink THEN {"resolved"} ELSE {}
    IN  IF resolved
        THEN Effects(Some(<<"Location updated.">>), <<>>, <<>>, tried, asked)
        ELSE Effects(None,
                     dispatch_to_chat(state,
                        <<"I'm sharing my location: ", lat, ", ", lon>>),
                     <<>>, tried, asked)

handle_location(state, msg, env) ==
    LET static == is_some(msg.location)
        loc == IF static THEN unwrap(msg.location) ELSE unwrap(msg.live_location)
        lat == unwrap_or(loc.degrees_latitude, "0")
        lon == unwrap_or(loc.degrees_longitude, "0")
        is_live == IF static THEN unwrap_or(loc.is_live, FALSE) ELSE TRUE
        resolved == state.event_sink /\ env.resolved
        tried == IF state.event_sink THEN <<[lat |-> lat, lon |-> lon]>> ELSE <<>>
        asked == IF state.event_sink THEN {"resolved"} ELSE {}
    IN  IF resolved
        THEN Effects(Some(<<"Location updated.">>), <<>>, <<>>, tried, asked)
        ELSE IF is_live
        THEN Effects(None, <<>>, <<>>, tried, asked)
        ELSE Effects(None,
                     dispatch_to_chat(state,
                        <<"I'm sharing my location: ", lat, ", ", lon>>),
                     <<>>, tried, asked)

\* A plausible slip: the kind decides before the slash prefix is looked at.
is_command_TextOnly(msg, text) ==
    /\ text # <<>>
    /\ Head(text) = "/"
    /\ classify_message(msg, text) = "Text"

\* text.strip_prefix('/') is Some
is_command(msg, text) == text # <<>> /\ Head(text) = "/"

\* the commands GatewayChannelEventSink::dispatch_command knows, and what
\* it answers when the chat backend performs them
KnownCommands ==
    [c \in {<<"n", "e", "w">>, <<"c", "l", "e", "a", "r">>} |->
        IF c = <<"n", "e", "w">> THEN <<"New session started.">> ELSE <<"Session cleared.">>]

\* dispatch_command(command, reply_to): Result<String>; backend_ok is
\* whether the gateway is ready and the chat backend performs the command
dispatch_command(command, backend_ok) ==
    IF command \in DOMAIN KnownCommands
    THEN IF backend_ok
         THEN [ok |-> TRUE, text |-> KnownCommands[command]]
         ELSE [ok |-> FALSE, text |-> <<"gateway not ready">>]
    ELSE IF backend_ok
    THEN [ok |-> FALSE, text |-> <<"unknown command: /">> \o command]
    ELSE [ok |-> FALSE, text |-> <<"gateway not ready">>]

\* the slash-command branch of handle_message
handle_command(state, text, cmd_ok) ==
    LET r == dispatch_command(Tail(text), cmd_ok)
    IN  IF state.event_sink
        THEN Effects(Some(IF r.ok THEN r.text ELSE <<"Error: ">> \o r.text),
                     <<[kind |-> "command", text |-> Tail(text), model |-> None]>>,
                     <<>>, <<>>, {"cmd_ok"})
        ELSE NoEffects

\* the match on message_kind at the end of handle_message
handle_kind(state, msg, text, kind, env) ==
    IF kind = "Text" THEN Effects(None, dispatch_to_chat(state, text), <<>>, <<>>, {})
    ELSE IF kind = "Photo" THEN handle_photo(state, msg, env)
    ELSE IF kind \in {"Voice", "Audio"} THEN handle_voice_audio(state, msg, kind, env)
    ELSE IF kind = "Video" THEN handle_video(state, msg)
    ELSE IF kind = "Document" THEN handle_document(state, msg)
    ELSE IF kind = "Location" THEN handle_location(state, msg, env)
    ELSE Effects(Some(<<"Sorry, I can't understand that message type. Check logs for details.">>),
                 <<>>, <<>>, <<>>, {})

\* A plausible slip: every denied DM is offered the OTP flow.
enters_otp_flow_AnyDenial(state, msg, reason) ==
    /\ reason # Ok
    /\ ~msg.is_group
    /\ state.config.otp_self_approval

\* reason == NotOnAllowlist && !is_group && state.config.otp_self_approval
enters_otp_flow(state, msg, reason) ==
    /\ reason = "NotOnAllowlist"
    /\ ~msg.is_group
    /\ state.config.otp_self_approval

\* the collaborators' answers a handler run may ask for
EnvFields == {"download_ok", "stt", "transcribe_ok", "resolved"}

Envs == [EnvFields -> BOOLEAN]

QuietEnv == [f \in EnvFields |-> TRUE]

\* handle_message up to the first OTP manager call (has_pending); a message
\* that needs verify or initiate leaves the task at that call.
HandleMessage(h, a, msg, own_pn, own_lid, ok, cmd_ok, env) ==
    /\ a \in DOMAIN state_ref
    /\ pc[h].stage = "idle"
    /\ LET state == state_ref[a]
           text == message_text(msg)
           peer_id == to_string(msg.sender)
           echo == is_self_echo(state, msg, own_pn, own_lid)
           is_owner_self_chat == from_me_or_owner(msg, own_pn, own_lid) /\ ~echo
           ar == access_result(state, msg, is_owner_self_chat)
           res == ar.result
           granted == res = Ok
           otp_flow == enters_otp_flow(state, msg, res)
           pending == a \in DOMAIN accounts /\ has_pending(accounts[a].otp, peer_id)
           ignored == otp_flow /\ pending /\ ~is_otp_candidate(text)
           is_cmd == is_command(msg, text)
           kind == classify_message(msg, text)
           fx == IF echo \/ ~granted THEN NoEffects
                 ELSE IF is_cmd THEN handle_command(state, text, cmd_ok)
                 ELSE handle_kind(state, msg, text, kind, env)
           reply == fx.reply
           sends == ~echo /\ is_some(reply)
           base == [StepRecord("message", h, a, msg, own_pn, own_lid) EXCEPT
                       !.reg_config = RegConfig(a),
                       !.id_in_buffer = msg.id \in {state.recent_sent_ids[i] :
                                                       i \in DOMAIN state.recent_sent_ids},
                       !.id_was_sent = msg.id < next_id]
       IN  /\ ~sends => ok
           /\ (sends /\ ok) => next_id <= send_cap
           /\ "cmd_ok" \notin fx.asked => cmd_ok
           /\ \A f \in EnvFields \ fx.asked : env[f]
           /\ last' =
                 IF echo
                 THEN [base EXCEPT !.dropped = TRUE]
                 ELSE [base EXCEPT
                         !.owner = is_owner_self_chat,
                         !.checked = ar.consulted,
                         !.access = res,
                         !.logged = IF state.message_log THEN Some(granted) ELSE None,
                         !.events = IF state.event_sink
                                    THEN <<ChannelEvent("InboundMessage", peer_id,
                                                        granted, None, 0)>>
                                    ELSE <<>>,
                         !.replies = IF is_some(reply)
                                     THEN <<Outgoing(unwrap(reply), ok)>>
                                     ELSE <<>>,
                         !.dispatched = fx.dispatched,
                         !.kind = IF granted /\ ~is_cmd THEN kind ELSE "none",
                         !.downloads = fx.downloads,
                         !.location_updates = fx.location_updates,
                         !.resolved = fx.location_updates # <<>> /\ env.resolved,
                         !.otp = IF ~otp_flow THEN "none"
                                 ELSE IF ignored THEN "ignored"
                                 ELSE IF pending THEN "verify" ELSE "initiate"]
           /\ pc' = IF ~echo /\ otp_flow /\ ~ignored
                    THEN [pc EXCEPT ![h] =
                            IF pending
                            THEN [stage |-> "verify", account |-> a, msg |-> Some(msg)]
                            ELSE [stage |-> "initiate", account |-> a,
                                  msg |-> Some(WithoutBody(msg))]]
                    ELSE pc
           /\ state_ref' = IF sends /\ ok
                           THEN [state_ref EXCEPT ![a].recent_sent_ids =
                                                    record_sent_id(@, next_id)]
                           ELSE state_ref
           /\ next_id' = IF sends /\ ok THEN next_id + 1 ELSE next_id
    /\ UNCHANGED <<accounts, now, send_cap, otp_calls, accessVars, storeVars, benchVars, lifeVars>>

\* a call is appended to the peer's record
Called(peer, call) ==
    MapPut(otp_calls, peer,
           (IF peer \in DOMAIN otp_calls THEN otp_calls[peer] ELSE <<>>) \o <<call>>)

\* the reply and the event handle_otp_flow derives from a verify result
verify_reply(r) ==
    CASE r.result = "Approved" ->
            Some(<<"Access granted! You can now use this bot.">>)
      [] r.result = "WrongCode" ->
            Some(<<"Wrong code. ", ToString(r.attempts_left), " attempt",
                   IF r.attempts_left = 1 THEN "" ELSE "s", " remaining.">>)
      [] r.result = "LockedOut" ->
            Some(<<"Too many failed attempts. Please try again later.">>)
      [] r.result = "Expired" ->
            Some(<<"Your code has expired. Please send any message to get a new code.">>)
      [] r.result = "NoPending" -> None

\* A plausible slip: the prompt is resent together with a fresh
\* OtpChallenge event whenever initiate did not lock the peer out.
initiate_events_AlsoWhenPending(r, peer, t) ==
    IF r.result \in {"Created", "AlreadyPending"}
    THEN <<ChannelEvent("OtpChallenge", peer, FALSE, r.code, t + OTP_EXPIRY_SECS)>>
    ELSE <<>>

\* the events handle_otp_flow emits for an initiate result
initiate_events(r, peer, t) ==
    IF r.result = "Created"
    THEN <<ChannelEvent("OtpChallenge", peer, FALSE, r.code, t + OTP_EXPIRY_SECS)>>
    ELSE <<>>

initiate_reply(r) ==
    IF r.result = "LockedOut"
    THEN <<"Too many failed attempts. Please try again later.">>
    ELSE OTP_CHALLENGE_MSG

\* A plausible slip: the handler verifies against the OtpState of its own
\* AccountState, not the registry's.
otp_lookup_OwnState(a) == state_ref[a].otp

\* accounts.get(account_id) ... s.otp.lock()
otp_lookup(a) == accounts[a].otp

\* handle_otp_flow, the pending branch: verify and answer
OtpVerify(h, ok) ==
    /\ pc[h].stage = "verify"
    /\ LET a == pc[h].account
           msg == unwrap(pc[h].msg)
           peer_id == to_string(msg.sender)
           state == state_ref[a]
           known == a \in DOMAIN accounts
           r == IF known
                THEN verify(otp_lookup(a), now, peer_id, trim(message_text(msg)))
                ELSE [result |-> "NoAccount", attempts_left |-> 0, otp |-> None]
           reply == IF known THEN verify_reply(r) ELSE None
           sends == is_some(reply)
       IN  /\ ~sends => ok
           /\ (sends /\ ok) => next_id <= send_cap
           /\ accounts' = IF known THEN [accounts EXCEPT ![a].otp = r.otp] ELSE accounts
           /\ otp_calls' =
                 IF known
                 THEN Called(peer_id, [call |-> "verify", result |-> r.result,
                                       attempts_left |-> r.attempts_left, at |-> now,
                                       code |-> trim(message_text(msg))])
                 ELSE otp_calls
           /\ last' = [StepRecord("otp_verify", h, a, msg, None, None) EXCEPT
                          !.reg_config = RegConfig(a),
                          !.access = "NotOnAllowlist",
                          !.replies = IF sends THEN <<Outgoing(unwrap(reply), ok)>>
                                               ELSE <<>>,
                          !.events = IF r.result = "Approved" /\ state.event_sink
                                     THEN <<ChannelEvent("OtpResolved", peer_id, FALSE,
                                                         None, 0)>>
                                     ELSE <<>>,
                          !.otp = r.result]
           /\ state_ref' = IF sends /\ ok
                           THEN [state_ref EXCEPT ![a].recent_sent_ids =
                                                    record_sent_id(@, next_id)]
                           ELSE state_ref
           /\ next_id' = IF sends /\ ok THEN next_id + 1 ELSE next_id
    /\ pc' = [pc EXCEPT ![h] = Idle]
    /\ UNCHANGED <<now, send_cap, accessVars, storeVars, benchVars, lifeVars>>

\* handle_otp_flow, no pending challenge: initiate and answer
OtpInitiate(h, code, ok) ==
    /\ pc[h].stage = "initiate"
    /\ LET a == pc[h].account
           msg == unwrap(pc[h].msg)
           peer_id == to_string(msg.sender)
           state == state_ref[a]
           known == a \in DOMAIN accounts
           r == IF known
                THEN initiate(otp_lookup(a), now, peer_id, code)
                ELSE [result |-> "NoAccount", code |-> None, otp |-> None]
           sends == known
       IN  /\ ~sends => ok
           /\ (sends /\ ok) => next_id <= send_cap
           /\ accounts' = IF known THEN [accounts EXCEPT ![a].otp = r.otp] ELSE accounts
           /\ otp_calls' =
                 IF known /\ r.result = "Created"
                 THEN MapPut(otp_calls, peer_id,
                             <<[call |-> "initiate", result |-> "Created",
                                attempts_left |-> 0, at |-> now, code |-> code]>>)
                 ELSE otp_calls
           /\ last' = [StepRecord("otp_init", h, a, msg, None, None) EXCEPT
                          !.reg_config = RegConfig(a),
                          !.access = "NotOnAllowlist",
                          !.replies = IF sends THEN <<Outgoing(initiate_reply(r), ok)>>
                                               ELSE <<>>,
                          !.events = IF known /\ state.event_sink
                                     THEN initiate_events(r, peer_id, now)
                                     ELSE <<>>,
                          !.otp = r.result]
           /\ state_ref' = IF sends /\ ok
                           THEN [state_ref EXCEPT ![a].recent_sent_ids =
                                                    record_sent_id(@, next_id)]
                           ELSE state_ref
           /\ next_id' = IF sends /\ ok THEN next_id + 1 ELSE next_id
    /\ pc' = [pc EXCEPT ![h] = Idle]
    /\ UNCHANGED <<now, send_cap, accessVars, storeVars, benchVars, lifeVars>>

(***************************************************************************)
(* connection.rs, plugin.rs, outbound.rs                                   *)
(***************************************************************************)
AccountState(config, message_log, event_sink, cancel) ==
    [config |-> config,
     cancel |-> cancel,
     message_log |-> message_log,
     event_sink |-> event_sink,
     latest_qr |-> None,
     connected |-> FALSE,
     otp |-> OtpState_new(config.otp_cooldown_secs),
     recent_sent_ids |-> <<>>]

\* the outcomes of start_account: success, a config that does not
\* deserialize, SledStore::open failing, the client builder failing
StartOutcomes == {Ok, "InvalidConfig", "Store", "Whatsapp"}

\* no facade call or connection event yet
\* no ChannelHealthSnapshot was returned
NoSnapshot == [connected |-> FALSE, account_id |-> "", details |-> ""]

NoLife ==
    [op |-> "none", account |-> "", result |-> "none", snap |-> NoSnapshot,
     cached |-> FALSE, event |-> <<>>,
     accounts_before |-> EmptyMap, tokens_before |-> <<>>, tasks_before |-> {},
     conn |-> EmptyMap, qr |-> EmptyMap, emitted |-> {}]

\* the record of a facade call or connection event
LifeOp(op, a, result) ==
    [life EXCEPT !.op = op, !.account = a, !.result = result, !.snap = NoSnapshot,
                 !.cached = FALSE,
                 !.event = <<>>, !.emitted = {}, !.accounts_before = accounts,
                 !.tokens_before = tokens, !.tasks_before = tasks]

\* A plausible slip: the state is registered before the client is built.
registered_Early(registry, a, state, outcome) ==
    IF outcome \in {Ok, "Whatsapp"} THEN MapPut(registry, a, state) ELSE registry

\* the registry after start_connection: the insert is reached only when the
\* store was opened and the client built
registered(registry, a, state, outcome) ==
    IF outcome = Ok THEN MapPut(registry, a, state) ELSE registry

\* the task start_connection spawns: it awaits bot.run() and the token
\* (stage "spawned"), then the run loop's handle and the token ("running"),
\* and ends after one of them ("exited", with the line it logged)
Task(a, cancel) ==
    [account |-> a, cancel |-> cancel, stage |-> "spawned", run |-> "pending",
     logged |-> ""]

\* start_account / start_connection: on success one AccountState goes into
\* the callback's OnceCell and a second, separately built one into the
\* registry, both with clones of one new token, and the event loop is
\* spawned.  A token made for a start that then fails is dropped unseen.
\* The store of a registered account is open and locked, so a start of its
\* id does not get past SledStore::open.
StartAccount(a, config, message_log, event_sink, outcome) ==
    /\ outcome = Ok => a \notin DOMAIN accounts /\ Len(tokens) < MaxStarts
    /\ LET cancel == Len(tokens) + 1
           state == AccountState(config, message_log, event_sink, cancel)
       IN  /\ accounts' = registered(accounts, a, state, outcome)
           /\ state_ref' = IF outcome = Ok THEN MapPut(state_ref, a, state) ELSE state_ref
           /\ tokens' = IF outcome = Ok THEN Append(tokens, FALSE) ELSE tokens
           /\ tasks' = IF outcome = Ok
                       THEN tasks \cup {Task(a, cancel)}
                       ELSE tasks
           /\ life' = [LifeOp("start", a, outcome) EXCEPT
                          !.conn = IF outcome = Ok THEN MapPut(@, a, None) ELSE @,
                          !.qr = IF outcome = Ok THEN MapPut(@, a, None) ELSE @]
    /\ UNCHANGED <<now, next_id, send_cap, pc, last, otp_calls, probe_cache,
                   accessVars, storeVars, benchVars>>

\* WhatsAppPlugin::update_account_config, for a registered account
UpdateAccountConfig(a, config) ==
    /\ a \in DOMAIN accounts
    /\ accounts[a].config # config
    /\ accounts' = [accounts EXCEPT ![a].config = config]
    /\ UNCHANGED <<state_ref, now, next_id, send_cap, pc, last, otp_calls, accessVars, storeVars, benchVars, lifeVars>>

\* WhatsAppOutbound::send_text with a valid JID, the send succeeding
SendText(a) ==
    /\ a \in DOMAIN accounts
    /\ next_id <= send_cap
    /\ accounts' = [accounts EXCEPT ![a].recent_sent_ids = record_sent_id(@, next_id)]
    /\ next_id' = next_id + 1
    /\ UNCHANGED <<state_ref, now, send_cap, pc, last, otp_calls, accessVars, storeVars, benchVars, lifeVars>>

\* time passes
Tick(d) ==
    /\ now + d <= MaxClock
    /\ now' = now + d
    /\ UNCHANGED <<accounts, state_ref, next_id, send_cap, pc, last, otp_calls, accessVars, storeVars, benchVars, lifeVars>>

(***************************************************************************)
(* plugin.rs, handlers.rs: the facade's lifecycle and status calls and the *)
(* connection events of handle_event.                                      *)
(***************************************************************************)
\* probe results are cached for 30 seconds
PROBE_CACHE_TTL == 30

\* WhatsAppPlugin::has_account
has_account(a) == a \in DOMAIN accounts

\* WhatsAppPlugin::account_ids
account_ids == DOMAIN accounts

\* A plausible slip: the token is taken but not signalled.
cancel_Forgotten(toks, t) == toks

\* CancellationToken::cancel
cancel(toks, t) == [toks EXCEPT ![t] = TRUE]

\* stop_account: cancel the registered state's token and remove the id; an
\* unknown id is logged and nothing else
StopAccount(a) ==
    /\ IF a \in DOMAIN accounts
       THEN /\ tokens' = cancel(tokens, accounts[a].cancel)
            /\ accounts' = MapRemove(accounts, a)
       ELSE UNCHANGED <<tokens, accounts>>
    /\ life' = LifeOp("stop", a, Ok)
    /\ UNCHANGED <<state_ref, now, next_id, send_cap, pc, last, otp_calls, tasks,
                   probe_cache, accessVars, storeVars, benchVars>>

\* the events moltis emits outward for connection events
PairingEvent(type, a, data) == [type |-> type, account_id |-> a, data |-> data]

\* the state handle_event writes to: the Arc the callback holds
event_state(a) == state_ref[a]

\* A plausible slip: Disconnected is announced like LoggedOut.
emitted_by_Disconnected(a, ev) ==
    IF ~event_state(a).event_sink THEN {}
    ELSE CASE ev.type = "PairingQrCode" -> {PairingEvent("PairingQrCode", a, ev.code)}
           [] ev.type = "Connected" -> {PairingEvent("PairingComplete", a, ev.push_name)}
           [] ev.type = "PairError" -> {PairingEvent("PairingFailed", a, ev.err)}
           [] ev.type \in {"LoggedOut", "Disconnected"} ->
                  {PairingEvent("AccountDisabled", a, "logged out by WhatsApp")}
           [] OTHER -> {}

\* what handle_event emits for an event, when the state has an event sink
emitted_by(a, ev) ==
    IF ~event_state(a).event_sink THEN {}
    ELSE CASE ev.type = "PairingQrCode" -> {PairingEvent("PairingQrCode", a, ev.code)}
           [] ev.type = "Connected" -> {PairingEvent("PairingComplete", a, ev.push_name)}
           [] ev.type = "PairError" -> {PairingEvent("PairingFailed", a, ev.err)}
           [] ev.type = "LoggedOut" ->
                  {PairingEvent("AccountDisabled", a, "logged out by WhatsApp")}
           [] OTHER -> {}

\* handle_event for the connection events
handle_event(a, ev) ==
    /\ state_ref' =
           [state_ref EXCEPT ![a] =
               CASE ev.type = "PairingQrCode" -> [@ EXCEPT !.latest_qr = Some(ev.code)]
                 [] ev.type = "Connected" -> [@ EXCEPT !.connected = TRUE, !.latest_qr = None]
                 [] ev.type \in {"Disconnected", "LoggedOut"} -> [@ EXCEPT !.connected = FALSE]
                 [] OTHER -> @]
    /\ life' = [LifeOp("event", a, Ok) EXCEPT
                   !.event = ev,
                   !.emitted = emitted_by(a, ev),
                   !.conn[a] = CASE ev.type = "Connected" -> Some(TRUE)
                                 [] ev.type \in {"Disconnected", "LoggedOut"} -> Some(FALSE)
                                 [] OTHER -> @,
                   !.qr[a] = CASE ev.type = "PairingQrCode" -> Some(ev.code)
                               [] ev.type = "Connected" -> None
                               [] OTHER -> @]
    /\ UNCHANGED <<accounts, now, next_id, send_cap, pc, last, otp_calls, tokens, tasks,
                   probe_cache, accessVars, storeVars, benchVars>>

\* handle_event, run by the callback of a bot whose task has not been
\* cancelled
HandleEvent(a, ev) ==
    /\ a \in DOMAIN state_ref
    /\ ~tokens[state_ref[a].cancel]
    /\ handle_event(a, ev)

\* the on_event callback of start_connection: the event is handled whenever
\* the OnceCell holds the state, which it does from the start on
OnEvent(a, ev) ==
    /\ a \in DOMAIN state_ref
    /\ handle_event(a, ev)

\* ChannelHealthSnapshot of a registered state, or of an id not started
\* (no config of the model carries a display name)
health_snapshot(a) ==
    IF a \in DOMAIN accounts
    THEN [connected |-> accounts[a].connected,
          account_id |-> a,
          details |-> IF accounts[a].connected THEN "WhatsApp: connected"
                      ELSE IF is_some(accounts[a].latest_qr) THEN "waiting for QR scan"
                      ELSE "disconnected"]
    ELSE [connected |-> FALSE, account_id |-> a, details |-> "account not started"]

\* A plausible slip: a snapshot of exactly the TTL's age is still served.
cache_fresh_Inclusive(a) ==
    a \in DOMAIN probe_cache /\ now - probe_cache[a].ts <= PROBE_CACHE_TTL

\* the cached snapshot is served while it is younger than the TTL
cache_fresh(a) ==
    a \in DOMAIN probe_cache /\ now - probe_cache[a].ts < PROBE_CACHE_TTL

\* ChannelStatus::probe
Probe(a) ==
    /\ IF cache_fresh(a)
       THEN /\ life' = [LifeOp("probe", a, Ok) EXCEPT !.snap = probe_cache[a].snap,
                                                      !.cached = TRUE]
            /\ UNCHANGED probe_cache
       ELSE /\ life' = [LifeOp("probe", a, Ok) EXCEPT !.snap = health_snapshot(a)]
            /\ probe_cache' = MapPut(probe_cache, a, [snap |-> health_snapshot(a), ts |-> now])
    /\ UNCHANGED <<accounts, state_ref, now, next_id, send_cap, pc, last, otp_calls,
                   tokens, tasks, accessVars, storeVars, benchVars>>

\* WhatsAppPlugin::latest_qr
LatestQr(a) ==
    /\ life' = LifeOp("latest_qr", a,
                      IF a \in DOMAIN accounts THEN accounts[a].latest_qr ELSE None)
    /\ UNCHANGED <<accounts, state_ref, now, next_id, send_cap, pc, last, otp_calls,
                   tokens, tasks, probe_cache, accessVars, storeVars, benchVars>>

(***************************************************************************)
(* memory_store.rs, sled_store.rs: the two protocol store backends.  A     *)
(* sled tree and a DashMap are maps from keys to values; byte strings are  *)
(* sequences of bytes, text keys sequences of characters.                  *)
(***************************************************************************)
TreeNames ==
    {"identities", "sessions", "prekeys", "signed_prekeys", "sender_keys", "sync_keys",
     "app_state_versions", "mutation_macs", "mutation_mac_indexes", "device_data",
     "device_id", "skdm_recipients", "lid_mappings", "pn_mappings",
     "device_list_records", "sender_key_forget_marks", "base_keys"}

EmptyTrees == [t \in TreeNames |-> EmptyMap]

\* MemoryStore::new
MemoryStore_new == [trees |-> EmptyTrees, device_data |-> None, device_id |-> 0]

\* i32 addition of one, wrapping as the atomic fetch_add does
wrapping_inc(n) == IF n = 2147483647 THEN -2147483647 - 1 ELSE n + 1

\* the low three bytes of a non-negative number below 2^31, and the rest
LowBytes(k) == <<k % 256, (k \div 256) % 256, (k \div 65536) % 256>>

\* i32::to_le_bytes (two's complement)
to_le_bytes(n) ==
    IF n >= 0
    THEN LowBytes(n) \o <<n \div 16777216>>
    ELSE LET k == (n + 2147483647) + 1
         IN  LowBytes(k) \o <<(k \div 16777216) + 128>>

\* i32::from_le_bytes
from_le_bytes(b) ==
    IF b[4] < 128
    THEN b[1] + 256 * b[2] + 65536 * b[3] + 16777216 * b[4]
    ELSE ((b[1] + 256 * b[2] + 65536 * b[3] + 16777216 * (b[4] - 128)) - 2147483647) - 1

\* the key of the persisted counter
CounterKey == <<"c", "o", "u", "n", "t", "e", "r">>

\* A plausible slip: the counter is not read back when the store is opened.
SledStore_open_FreshCounter(disk) == [device_id |-> 0]

\* SledStore::open: the trees are those on disk, the device_id counter is
\* loaded from the "device_id" tree (0 when absent or not four bytes)
SledStore_open(disk) ==
    [device_id |->
        IF CounterKey \in DOMAIN disk["device_id"] /\ Len(disk["device_id"][CounterKey]) = 4
        THEN from_le_bytes(disk["device_id"][CounterKey])
        ELSE 0]

\* no store operation yet
NoRet == [op |-> "none", key |-> <<>>, mem |-> <<>>, sled |-> <<>>, expect |-> <<>>]

\* no store constructed and no database on disk
\* no pure function is being applied
\* no function is being applied, no task is inside an operation
BenchIdle == calc = None /\ thr = <<>>

StoreIdle ==
    /\ family = "none"
    /\ mem = None
    /\ sled = None
    /\ sled_handle = None
    /\ store_epoch = 0
    /\ store_ret = NoRet
    /\ shadow = <<>>

\* the store handle is dropped and SledStore::open is called on the same path
SledReopen ==
    /\ is_some(sled_handle)
    /\ store_epoch < MaxReopens
    /\ sled_handle' = Some(SledStore_open(sled))
    /\ store_epoch' = store_epoch + 1
    /\ UNCHANGED <<family, mem, sled, store_ret, shadow, accessVars, runtimeVars, benchVars>>

\* DeviceStore::create on both backends
StoreCreate ==
    /\ family = "device_id"
    /\ is_some(sled_handle)
    /\ Len(shadow) < MaxCreates
    /\ LET sid == unwrap(sled_handle).device_id
           mid == mem.device_id
       IN  /\ sled_handle' = Some([unwrap(sled_handle) EXCEPT !.device_id = wrapping_inc(sid)])
           /\ sled' = [sled EXCEPT !["device_id"] =
                          MapPut(@, CounterKey, to_le_bytes(wrapping_inc(sid)))]
           /\ mem' = [mem EXCEPT !.device_id = wrapping_inc(mid)]
           /\ store_ret' = [op |-> "create", key |-> <<>>, mem |-> mid, sled |-> sid,
                            expect |-> Len(shadow)]
           /\ shadow' = Append(shadow, [id |-> sid, epoch |-> store_epoch])
    /\ UNCHANGED <<family, store_epoch, accessVars, runtimeVars, benchVars>>

(***************************************************************************)
(* The record families with one value per key: identities, sessions,       *)
(* one-time prekeys, signed prekeys, sender keys, sync keys, version       *)
(* cursors, base keys, device lists and the device record.                 *)
(***************************************************************************)
KvFamilies ==
    {"identities", "sessions", "prekeys", "signed_prekeys", "sender_keys", "sync_keys",
     "app_state_versions", "base_keys", "device_list_records", "device_data"}

\* families that have a remove/delete operation
Removable ==
    {"identities", "sessions", "prekeys", "signed_prekeys", "sender_keys", "base_keys"}

\* families whose values sled stores as JSON
JsonFamilies ==
    {"prekeys", "sync_keys", "app_state_versions", "device_list_records", "device_data"}

\* serde_json::to_vec / from_slice: the encoded value is not the value, and
\* decoding gives back what was encoded
to_vec(v) == <<"json", v>>

from_slice(b) == b[2]

Colon == <<":">>

\* format!("{a}:{b}")
colon_key(a, b) == a \o Colon \o b

\* the key a family's sled tree uses for the caller's key
sled_key(t, k) ==
    CASE t \in {"prekeys", "signed_prekeys"} -> to_le_bytes(k)
      [] t = "base_keys" -> colon_key(k[1], k[2])
      [] t = "device_data" -> <<"d", "e", "v", "i", "c", "e">>
      [] OTHER -> k

\* the key a family's DashMap uses
mem_key(t, k) == IF t = "base_keys" THEN colon_key(k[1], k[2]) ELSE k

\* what sled stores for a value
sled_val(t, v) == IF t \in JsonFamilies THEN to_vec(v) ELSE v

\* what a load makes of the stored bytes: a prekey is stored with its
\* uploaded flag and loaded without it
sled_out(t, b) ==
    CASE t = "prekeys" -> from_slice(b)[1]
      [] t \in JsonFamilies -> from_slice(b)
      [] OTHER -> b

mem_out(t, v) == IF t = "prekeys" THEN v[1] ELSE v

\* HashState::default()
HashState_default == [version |-> 0]

\* get_version answers the default state for a name never set
get_result(t, o) ==
    IF t = "app_state_versions" /\ ~is_some(o) THEN Some(HashState_default) ELSE o

sled_insert(disk, t, k, v) == [disk EXCEPT ![t] = MapPut(@, sled_key(t, k), sled_val(t, v))]

sled_lookup(disk, t, k) ==
    get_result(t, IF sled_key(t, k) \in DOMAIN disk[t]
                  THEN Some(sled_out(t, disk[t][sled_key(t, k)]))
                  ELSE None)

sled_remove(disk, t, k) == [disk EXCEPT ![t] = MapRemove(@, sled_key(t, k))]

mem_insert(m, t, k, v) ==
    IF t = "device_data"
    THEN [m EXCEPT !.device_data = Some(v)]
    ELSE [m EXCEPT !.trees[t] = MapPut(@, mem_key(t, k), v)]

mem_lookup(m, t, k) ==
    IF t = "device_data"
    THEN m.device_data
    ELSE get_result(t, IF mem_key(t, k) \in DOMAIN m.trees[t]
                       THEN Some(mem_out(t, m.trees[t][mem_key(t, k)]))
                       ELSE None)

mem_remove(m, t, k) == [m EXCEPT !.trees[t] = MapRemove(@, mem_key(t, k))]

\* what the caller expects a load to give for a value it stored
loaded(t, v) == IF t = "prekeys" THEN v[1] ELSE v

\* what the caller expects a load of k to give
expected(t, k) ==
    get_result(t, IF k \in DOMAIN shadow THEN Some(shadow[k]) ELSE None)

\* put_identity, put_session, store_prekey, store_signed_prekey,
\* put_sender_key, set_sync_key, set_version, save_base_key,
\* update_device_list, DeviceStore::save
StorePut(t, k, v) ==
    /\ family = t
    /\ t \in KvFamilies
    /\ is_some(sled_handle)
    /\ sled' = sled_insert(sled, t, k, v)
    /\ mem' = mem_insert(mem, t, k, v)
    /\ shadow' = MapPut(shadow, k, loaded(t, v))
    /\ store_ret' = [op |-> "put", key |-> k, mem |-> Ok, sled |-> Ok, expect |-> Ok]
    /\ UNCHANGED <<family, sled_handle, store_epoch, accessVars, runtimeVars, benchVars>>

\* load_identity, get_session, load_prekey, load_signed_prekey,
\* get_sender_key, get_sync_key, get_version, get_devices, DeviceStore::load
StoreGet(t, k) ==
    /\ family = t
    /\ t \in KvFamilies \ {"base_keys"}
    /\ is_some(sled_handle)
    /\ store_ret' = [op |-> "get", key |-> k, mem |-> mem_lookup(mem, t, k),
                     sled |-> sled_lookup(sled, t, k), expect |-> expected(t, k)]
    /\ UNCHANGED <<family, mem, sled, sled_handle, store_epoch, shadow,
                   accessVars, runtimeVars, benchVars>>

\* has_same_base_key
StoreHasSameBaseKey(k, current) ==
    /\ family = "base_keys"
    /\ is_some(sled_handle)
    /\ store_ret' = [op |-> "has_same", key |-> k,
                     mem |-> mem_lookup(mem, "base_keys", k) = Some(current),
                     sled |-> sled_lookup(sled, "base_keys", k) = Some(current),
                     expect |-> expected("base_keys", k) = Some(current)]
    /\ UNCHANGED <<family, mem, sled, sled_handle, store_epoch, shadow,
                   accessVars, runtimeVars, benchVars>>

\* delete_identity, delete_session, remove_prekey, remove_signed_prekey,
\* delete_sender_key, delete_base_key
StoreRemove(t, k) ==
    /\ family = t
    /\ t \in Removable
    /\ is_some(sled_handle)
    /\ sled' = sled_remove(sled, t, k)
    /\ mem' = mem_remove(mem, t, k)
    /\ shadow' = MapRemove(shadow, k)
    /\ store_ret' = [op |-> "remove", key |-> k, mem |-> Ok, sled |-> Ok, expect |-> Ok]
    /\ UNCHANGED <<family, sled_handle, store_epoch, accessVars, runtimeVars, benchVars>>

\* DeviceStore::exists
StoreExists ==
    /\ family = "device_data"
    /\ is_some(sled_handle)
    /\ store_ret' = [op |-> "exists", key |-> <<>>,
                     mem |-> is_some(mem_lookup(mem, "device_data", <<>>)),
                     sled |-> is_some(sled_lookup(sled, "device_data", <<>>)),
                     expect |-> is_some(expected("device_data", <<>>))]
    /\ UNCHANGED <<family, mem, sled, sled_handle, store_epoch, shadow,
                   accessVars, runtimeVars, benchVars>>

\* load_all_signed_prekeys, as an unordered collection
StoreLoadAllSignedPrekeys ==
    /\ family = "signed_prekeys"
    /\ is_some(sled_handle)
    /\ store_ret' =
           [op |-> "load_all", key |-> <<>>,
            mem |-> {<<id, mem.trees["signed_prekeys"][id]>> :
                        id \in DOMAIN mem.trees["signed_prekeys"]},
            sled |-> {<<from_le_bytes(b), sled["signed_prekeys"][b]>> :
                        b \in DOMAIN sled["signed_prekeys"]},
            expect |-> {<<id, shadow[id]>> : id \in DOMAIN shadow}]
    /\ UNCHANGED <<family, mem, sled, sled_handle, store_epoch, shadow,
                   accessVars, runtimeVars, benchVars>>

(***************************************************************************)
(* LID / phone-number mappings: put_lid_mapping writes the entry under its *)
(* LID and an index from its phone number to that LID.                     *)
(***************************************************************************)
LidPnMappingEntry(lid, phone_number) == [lid |-> lid, phone_number |-> phone_number]

\* the caller's keys of the two lookups
ByLid(lid) == <<"lid", lid>>

ByPn(phone) == <<"pn", phone>>

sled_get_lid_mapping(disk, lid) ==
    IF lid \in DOMAIN disk["lid_mappings"]
    THEN Some(from_slice(disk["lid_mappings"][lid]))
    ELSE None

sled_get_pn_mapping(disk, phone) ==
    IF phone \in DOMAIN disk["pn_mappings"]
    THEN sled_get_lid_mapping(disk, disk["pn_mappings"][phone])
    ELSE None

mem_get_lid_mapping(m, lid) ==
    IF lid \in DOMAIN m.trees["lid_mappings"]
    THEN Some(m.trees["lid_mappings"][lid])
    ELSE None

mem_get_pn_mapping(m, phone) ==
    IF phone \in DOMAIN m.trees["pn_mappings"]
    THEN mem_get_lid_mapping(m, m.trees["pn_mappings"][phone])
    ELSE None

\* put_lid_mapping
PutLidMapping(entry) ==
    /\ family = "lid_mappings"
    /\ is_some(sled_handle)
    /\ sled' = [sled EXCEPT
                   !["pn_mappings"] = MapPut(@, entry.phone_number, entry.lid),
                   !["lid_mappings"] = MapPut(@, entry.lid, to_vec(entry))]
    /\ mem' = [mem EXCEPT
                  !.trees["pn_mappings"] = MapPut(@, entry.phone_number, entry.lid),
                  !.trees["lid_mappings"] = MapPut(@, entry.lid, entry)]
    /\ shadow' = MapPut(MapPut(shadow, ByLid(entry.lid), entry),
                        ByPn(entry.phone_number), entry)
    /\ store_ret' = [op |-> "put", key |-> ByLid(entry.lid), mem |-> Ok, sled |-> Ok,
                     expect |-> Ok]
    /\ UNCHANGED <<family, sled_handle, store_epoch, accessVars, runtimeVars, benchVars>>

\* get_lid_mapping
GetLidMapping(lid) ==
    /\ family = "lid_mappings"
    /\ is_some(sled_handle)
    /\ store_ret' = [op |-> "get", key |-> ByLid(lid),
                     mem |-> mem_get_lid_mapping(mem, lid),
                     sled |-> sled_get_lid_mapping(sled, lid),
                     expect |-> expected("lid_mappings", ByLid(lid))]
    /\ UNCHANGED <<family, mem, sled, sled_handle, store_epoch, shadow,
                   accessVars, runtimeVars, benchVars>>

\* get_pn_mapping
GetPnMapping(phone) ==
    /\ family = "lid_mappings"
    /\ is_some(sled_handle)
    /\ store_ret' = [op |-> "get", key |-> ByPn(phone),
                     mem |-> mem_get_pn_mapping(mem, phone),
                     sled |-> sled_get_pn_mapping(sled, phone),
                     expect |-> expected("lid_mappings", ByPn(phone))]
    /\ UNCHANGED <<family, mem, sled, sled_handle, store_epoch, shadow,
                   accessVars, runtimeVars, benchVars>>

\* get_all_lid_mappings, as an unordered collection
GetAllLidMappings ==
    /\ family = "lid_mappings"
    /\ is_some(sled_handle)
    /\ store_ret' =
           [op |-> "get_all", key |-> <<>>,
            mem |-> {mem.trees["lid_mappings"][l] : l \in DOMAIN mem.trees["lid_mappings"]},
            sled |-> {from_slice(sled["lid_mappings"][l]) : l \in DOMAIN sled["lid_mappings"]},
            expect |-> <<>>]
    /\ UNCHANGED <<family, mem, sled, sled_handle, store_epoch, shadow,
                   accessVars, runtimeVars, benchVars>>

(***************************************************************************)
(* App-state mutation MACs: stored under "{name}:{version}:{hex index     *)
(* MAC}", with the list of a version's index MACs under "{name}:{version}".*)
(***************************************************************************)
HexDigits == <<"0", "1", "2", "3", "4", "5", "6", "7", "8", "9", "a", "b", "c", "d", "e", "f">>

RECURSIVE hex_encode(_)
\* hex_encode: two lower-case hex digits per byte
hex_encode(bytes) ==
    IF bytes = <<>>
    THEN <<>>
    ELSE <<HexDigits[(Head(bytes) \div 16) + 1], HexDigits[(Head(bytes) % 16) + 1]>>
         \o hex_encode(Tail(bytes))

RECURSIVE u64_to_string(_)
\* the decimal digits format! writes for a u64
u64_to_string(n) ==
    IF n < 10
    THEN <<HexDigits[n + 1]>>
    ELSE u64_to_string(n \div 10) \o <<HexDigits[(n % 10) + 1]>>

\* str::starts_with
starts_with(str, prefix) ==
    Len(prefix) <= Len(str) /\ SubSeq(str, 1, Len(prefix)) = prefix

\* format!("{name}:{version}")
version_key(name, version) == colon_key(name, u64_to_string(version))

\* format!("{name}:{version}:{}", hex_encode(&mac.index_mac))
mac_key(name, version, index_mac) ==
    colon_key(version_key(name, version), hex_encode(index_mac))

\* the characters of the keys, in byte order
ByteOrder ==
    <<"0", "1", "2", "3", "4", "5", "6", "7", "8", "9", ":",
      "a", "b", "c", "d", "e", "f", "r", "s">>

byte_of(c) == CHOOSE i \in DOMAIN ByteOrder : ByteOrder[i] = c

RECURSIVE key_less(_, _)
\* the order in which a sled tree iterates its keys
key_less(a, b) ==
    IF a = <<>> THEN b # <<>>
    ELSE IF b = <<>> THEN FALSE
    ELSE IF Head(a) = Head(b) THEN key_less(Tail(a), Tail(b))
    ELSE byte_of(Head(a)) < byte_of(Head(b))

\* put_mutation_macs: one insert per mutation, then the version's index list
insert_macs(macs, name, version, mutations) ==
    [k \in DOMAIN macs \cup {mac_key(name, version, mutations[i].index_mac) :
                                i \in DOMAIN mutations} |->
        IF \E i \in DOMAIN mutations : k = mac_key(name, version, mutations[i].index_mac)
        THEN LET last_i == CHOOSE i \in DOMAIN mutations :
                     /\ k = mac_key(name, version, mutations[i].index_mac)
                     /\ \A j \in DOMAIN mutations :
                            k = mac_key(name, version, mutations[j].index_mac) => j <= i
             IN  mutations[last_i].value_mac
        ELSE macs[k]]

index_list(mutations) == [i \in DOMAIN mutations |-> mutations[i].index_mac]

\* the version keys under which get_mutation_mac finds the index MAC
mac_hits(indexes, macs, name, index_mac) ==
    {k \in DOMAIN indexes :
        /\ starts_with(k, colon_key(name, <<>>))
        /\ colon_key(k, hex_encode(index_mac)) \in DOMAIN macs}

\* SledStore::get_mutation_mac: the first hit in the tree's key order
sled_get_mutation_mac(disk, name, index_mac) ==
    LET hits == mac_hits(disk["mutation_mac_indexes"], disk["mutation_macs"], name, index_mac)
    IN  IF hits = {}
        THEN None
        ELSE LET first == CHOOSE k \in hits : \A o \in hits \ {k} : key_less(k, o)
             IN  Some(disk["mutation_macs"][colon_key(first, hex_encode(index_mac))])

\* MemoryStore::get_mutation_mac: the first hit in the DashMap's iteration
\* order, which is any order
mem_get_mutation_mac(m, name, index_mac) ==
    LET hits == mac_hits(m.trees["mutation_mac_indexes"], m.trees["mutation_macs"],
                         name, index_mac)
    IN  IF hits = {}
        THEN {None}
        ELSE {Some(m.trees["mutation_macs"][colon_key(k, hex_encode(index_mac))]) : k \in hits}

\* delete_mutation_macs: every key that starts with "{name}:" and ends with
\* the hex of one of the index MACs
remove_macs(macs, name, index_macs) ==
    [k \in {x \in DOMAIN macs :
                ~\E i \in DOMAIN index_macs :
                    /\ starts_with(x, colon_key(name, <<>>))
                    /\ ends_with(x, hex_encode(index_macs[i]))} |-> macs[k]]

\* the ghost of this family: the last value written per name and index MAC
NoMacs == [last |-> EmptyMap, puts |-> 0]

\* put_mutation_macs
PutMutationMacs(name, version, mutations) ==
    /\ family = "mutation_macs"
    /\ is_some(sled_handle)
    /\ shadow.puts < MaxMacPuts
    /\ sled' = [sled EXCEPT
                   !["mutation_macs"] = insert_macs(@, name, version, mutations),
                   !["mutation_mac_indexes"] =
                        MapPut(@, version_key(name, version), to_vec(index_list(mutations)))]
    /\ mem' = [mem EXCEPT
                  !.trees["mutation_macs"] = insert_macs(@, name, version, mutations),
                  !.trees["mutation_mac_indexes"] =
                        MapPut(@, version_key(name, version), index_list(mutations))]
    /\ shadow' = [last |-> [k \in DOMAIN shadow.last \cup
                                    {<<name, mutations[i].index_mac>> : i \in DOMAIN mutations} |->
                               IF \E i \in DOMAIN mutations : k = <<name, mutations[i].index_mac>>
                               THEN sled'["mutation_macs"][mac_key(name, version, k[2])]
                               ELSE shadow.last[k]],
                  puts |-> shadow.puts + 1]
    /\ store_ret' = [op |-> "put", key |-> <<name, version, mutations>>, mem |-> Ok,
                     sled |-> Ok, expect |-> Ok]
    /\ UNCHANGED <<family, sled_handle, store_epoch, accessVars, runtimeVars, benchVars>>

\* get_mutation_mac
GetMutationMac(name, index_mac) ==
    /\ family = "mutation_macs"
    /\ is_some(sled_handle)
    /\ \E r \in mem_get_mutation_mac(mem, name, index_mac) :
           store_ret' = [op |-> "get", key |-> <<name, index_mac>>, mem |-> r,
                         sled |-> sled_get_mutation_mac(sled, name, index_mac),
                         expect |-> IF <<name, index_mac>> \in DOMAIN shadow.last
                                    THEN Some(shadow.last[<<name, index_mac>>])
                                    ELSE None]
    /\ UNCHANGED <<family, mem, sled, sled_handle, store_epoch, shadow,
                   accessVars, runtimeVars, benchVars>>

\* delete_mutation_macs
DeleteMutationMacs(name, index_macs) ==
    /\ family = "mutation_macs"
    /\ is_some(sled_handle)
    /\ sled' = [sled EXCEPT !["mutation_macs"] = remove_macs(@, name, index_macs)]
    /\ mem' = [mem EXCEPT !.trees["mutation_macs"] = remove_macs(@, name, index_macs)]
    /\ shadow' = [shadow EXCEPT !.last =
                     [k \in {x \in DOMAIN @ :
                                ~(x[1] = name /\ \E i \in DOMAIN index_macs : x[2] = index_macs[i])}
                        |-> @[k]]]
    /\ store_ret' = [op |-> "delete_macs", key |-> <<name, index_macs>>, mem |-> Ok,
                     sled |-> Ok, expect |-> Ok]
    /\ UNCHANGED <<family, sled_handle, store_epoch, accessVars, runtimeVars, benchVars>>

(***************************************************************************)
(* Sender-key forget marks, stored under "{group_jid}:{participant}", and  *)
(* the recipients of sender-key distribution messages per group.           *)
(***************************************************************************)
\* A plausible slip: the prefix without its separator.
forget_prefix_NoColon(group_jid) == group_jid

\* format!("{group_jid}:")
forget_prefix(group_jid) == colon_key(group_jid, <<>>)

\* str::strip_prefix, for a key that starts with the prefix
strip_prefix(key, prefix) == SubSeq(key, Len(prefix) + 1, Len(key))

\* the keys consume_forget_marks collects
marked_keys(marks, group_jid) ==
    {k \in DOMAIN marks : starts_with(k, forget_prefix(group_jid))}

\* the participants it returns, as an unordered collection with multiplicity
consumed(marks, group_jid) ==
    LET keys == marked_keys(marks, group_jid)
        names == {strip_prefix(k, forget_prefix(group_jid)) : k \in keys}
    IN  [p \in names |->
            Cardinality({k \in keys : strip_prefix(k, forget_prefix(group_jid)) = p})]

\* the marks it leaves
unmarked(marks, group_jid) ==
    [k \in DOMAIN marks \ marked_keys(marks, group_jid) |-> marks[k]]

\* mark_forget_sender_key
MarkForgetSenderKey(group_jid, participant) ==
    /\ family = "sender_key_forget_marks"
    /\ is_some(sled_handle)
    /\ sled' = [sled EXCEPT !["sender_key_forget_marks"] =
                   MapPut(@, colon_key(group_jid, participant), <<1>>)]
    /\ mem' = [mem EXCEPT !.trees["sender_key_forget_marks"] =
                  MapPut(@, colon_key(group_jid, participant), TRUE)]
    /\ shadow' = MapPut(shadow, group_jid,
                        (IF group_jid \in DOMAIN shadow THEN shadow[group_jid] ELSE {})
                            \cup {participant})
    /\ store_ret' = [op |-> "mark", key |-> <<group_jid, participant>>, mem |-> Ok,
                     sled |-> Ok, expect |-> Ok]
    /\ UNCHANGED <<family, sled_handle, store_epoch, accessVars, runtimeVars, benchVars>>

\* consume_forget_marks
ConsumeForgetMarks(group_jid) ==
    /\ family = "sender_key_forget_marks"
    /\ is_some(sled_handle)
    /\ sled' = [sled EXCEPT !["sender_key_forget_marks"] = unmarked(@, group_jid)]
    /\ mem' = [mem EXCEPT !.trees["sender_key_forget_marks"] = unmarked(@, group_jid)]
    /\ shadow' = MapRemove(shadow, group_jid)
    /\ store_ret' = [op |-> "consume", key |-> group_jid,
                     mem |-> consumed(mem.trees["sender_key_forget_marks"], group_jid),
                     sled |-> consumed(sled["sender_key_forget_marks"], group_jid),
                     expect |-> [p \in (IF group_jid \in DOMAIN shadow
                                        THEN shadow[group_jid] ELSE {}) |-> 1]]
    /\ UNCHANGED <<family, sled_handle, store_epoch, accessVars, runtimeVars, benchVars>>

sled_get_skdm_recipients(disk, group_jid) ==
    IF group_jid \in DOMAIN disk["skdm_recipients"]
    THEN from_slice(disk["skdm_recipients"][group_jid])
    ELSE <<>>

mem_get_skdm_recipients(m, group_jid) ==
    IF group_jid \in DOMAIN m.trees["skdm_recipients"]
    THEN m.trees["skdm_recipients"][group_jid]
    ELSE <<>>

\* add_skdm_recipients
AddSkdmRecipients(group_jid, device_jids) ==
    /\ family = "skdm_recipients"
    /\ is_some(sled_handle)
    /\ Len(sled_get_skdm_recipients(sled, group_jid)) + Len(device_jids) <= MaxRecipients
    /\ sled' = [sled EXCEPT !["skdm_recipients"] =
                   MapPut(@, group_jid,
                          to_vec(sled_get_skdm_recipients(sled, group_jid) \o device_jids))]
    /\ mem' = [mem EXCEPT !.trees["skdm_recipients"] =
                  MapPut(@, group_jid, mem_get_skdm_recipients(mem, group_jid) \o device_jids)]
    /\ shadow' = MapPut(shadow, group_jid,
                        (IF group_jid \in DOMAIN shadow THEN shadow[group_jid] ELSE <<>>)
                            \o device_jids)
    /\ store_ret' = [op |-> "add", key |-> <<group_jid, device_jids>>, mem |-> Ok,
                     sled |-> Ok, expect |-> Ok]
    /\ UNCHANGED <<family, sled_handle, store_epoch, accessVars, runtimeVars, benchVars>>

\* get_skdm_recipients
GetSkdmRecipients(group_jid) ==
    /\ family = "skdm_recipients"
    /\ is_some(sled_handle)
    /\ store_ret' = [op |-> "recipients", key |-> group_jid,
                     mem |-> mem_get_skdm_recipients(mem, group_jid),
                     sled |-> sled_get_skdm_recipients(sled, group_jid),
                     expect |-> IF group_jid \in DOMAIN shadow THEN shadow[group_jid] ELSE <<>>]
    /\ UNCHANGED <<family, mem, sled, sled_handle, store_epoch, shadow,
                   accessVars, runtimeVars, benchVars>>

\* clear_skdm_recipients
ClearSkdmRecipients(group_jid) ==
    /\ family = "skdm_recipients"
    /\ is_some(sled_handle)
    /\ sled' = [sled EXCEPT !["skdm_recipients"] = MapRemove(@, group_jid)]
    /\ mem' = [mem EXCEPT !.trees["skdm_recipients"] = MapRemove(@, group_jid)]
    /\ shadow' = MapRemove(shadow, group_jid)
    /\ store_ret' = [op |-> "clear", key |-> group_jid, mem |-> Ok, sled |-> Ok,
                     expect |-> Ok]
    /\ UNCHANGED <<family, sled_handle, store_epoch, accessVars, runtimeVars, benchVars>>

(***************************************************************************)
(* The account runtime: one account is started, its config is hot-updated, *)
(* messages arrive and texts are sent.                                     *)
(***************************************************************************)
OwnPn == Jid("15550000001", "s.whatsapp.net")

OwnLid == Jid("259557842534599", "lid")

Alice == Jid("15551234567", "s.whatsapp.net")

GroupChat == Jid("120363456789", "g.us")

\* what the client knows of its own identity: PN and LID, or the LID only
OwnIdentities == {<<Some(OwnPn), Some(OwnLid)>>, <<None, Some(OwnLid)>>}

InboundMessage(sender, chat, is_from_me, id, text) ==
    [sender |-> sender, chat |-> chat, is_from_me |-> is_from_me,
     is_group |-> chat.server = "g.us", id |-> id,
     conversation |-> text, extended_text |-> None,
     image |-> None, audio |-> None, video |-> None, document |-> None,
     location |-> None, live_location |-> None]

\* the policies the account is started with: <<dm_policy, allowlist,
\* group_policy, group_allowlist>>
StartPolicies ==
    {<<"Disabled", <<>>, "Disabled", <<>>>>,
     <<"Open", <<>>, "Open", <<>>>>,
     <<"Allowlist", <<>>, "Allowlist", <<>>>>,
     <<"Allowlist", <<<<Alice.user>>>>, "Allowlist", <<to_string(GroupChat)>>>>,
     <<"Allowlist", <<>>, "Open", <<>>>>,
     <<"Open", <<>>, "Disabled", <<>>>>}

StartConfigs ==
    {WhatsAppAccountConfig(p[1], p[3], p[2], p[4], TRUE, 300, None) : p \in StartPolicies}

\* the configs update_account_config installs: the allowlist emptied, a
\* peer added to it (as after an approved OTP), another model routed
UpdateConfigs ==
    {DefaultConfig,
     [DefaultConfig EXCEPT !.allowlist = <<<<Alice.user>>>>],
     [DefaultConfig EXCEPT !.dm_policy = "Open", !.model = Some("model-b")]}

Hi == <<"h", "i">>

\* messages of the linked account itself: sent from another device of the
\* owner (is_from_me) or carrying the owner's JIDs, into the self chat, a
\* peer's chat or a group; with an id and a text the bot may have sent
OwnerMessages ==
    {InboundMessage(OwnPn, c, f, i, t) :
        c \in {OwnLid, Alice, GroupChat}, f \in BOOLEAN, i \in {1, MaxSends + 1},
        t \in {Some(Hi), Some(Hi \o BOT_WATERMARK)}}
    \cup {InboundMessage(OwnPn, OwnLid, TRUE, MaxSends + 1, t) :
             t \in {Some(<<"/", "n", "e", "w">>), None}}

\* messages of another user, direct or in a group
PeerMessages ==
    {InboundMessage(Alice, c, FALSE, MaxSends + 1, t) :
        c \in {Alice, GroupChat}, t \in {Some(Hi), Some(<<"/", "n", "e", "w">>), None}}

SpecMessages == OwnerMessages \cup PeerMessages

OtpCodes == {<<"1", "2", "3", "4", "5", "6">>, <<"6", "5", "4", "3", "2", "1">>}

\* the runtime before any plugin call
RuntimeIdle ==
    /\ accounts = EmptyMap
    /\ state_ref = EmptyMap
    /\ now = 0
    /\ next_id = 1
    /\ pc = [h \in Handlers |-> Idle]
    /\ last = NoStep
    /\ otp_calls = EmptyMap
    /\ tokens = <<>>
    /\ tasks = {}
    /\ probe_cache = EmptyMap
    /\ life = NoLife

\* the access harness at rest
AccessIdle ==
    /\ acfg = DefaultConfig
    /\ acheck = None
    /\ aedit = "none"

\* Spec: an account is started with any policy; messages of every
\* provenance arrive and the handler answers them.
Init ==
    /\ AccessIdle
    /\ BenchIdle
    /\ RuntimeIdle
    /\ StoreIdle
    /\ send_cap = MaxSends

Next ==
    \/ \E a \in AccountIds, c \in StartConfigs : StartAccount(a, c, TRUE, TRUE, Ok)
    \/ \E a \in AccountIds, m \in SpecMessages, own \in OwnIdentities, ok, cmd_ok \in BOOLEAN :
          HandleMessage(1, a, m, own[1], own[2], ok, cmd_ok, QuietEnv)
    \/ \E code \in {<<"1", "2", "3", "4", "5", "6">>}, ok \in BOOLEAN :
          OtpInitiate(1, code, ok)

Spec == Init /\ [][Next]_vars

\* SpecHot: the facade hot-updates the config and the outbound sender sends
\* texts while messages arrive.
HotMessages ==
    {InboundMessage(Alice, Alice, FALSE, MaxSends + 1, Some(<<"h", "i">>)),
     InboundMessage(Alice, GroupChat, FALSE, MaxSends + 1, Some(<<"h", "i">>))}
    \cup {InboundMessage(OwnPn, OwnLid, TRUE, i, t) :
             i \in 1..(MaxSends + 1),
             t \in {Some(<<"h", "i">>), Some(<<"h", "i">> \o BOT_WATERMARK)}}

HotNext ==
    \/ \E a \in AccountIds, c \in UpdateConfigs : StartAccount(a, c, TRUE, TRUE, Ok)
    \/ \E a \in AccountIds, c \in UpdateConfigs : UpdateAccountConfig(a, c)
    \/ \E a \in AccountIds : SendText(a)
    \/ \E a \in AccountIds, m \in HotMessages, ok \in BOOLEAN :
          HandleMessage(1, a, m, Some(OwnPn), Some(OwnLid), ok, TRUE, QuietEnv)
    \/ \E code \in OtpCodes, ok \in BOOLEAN : OtpInitiate(1, code, ok)

SpecHot == Init /\ [][HotNext]_vars


\* SpecOtp: a peer that is not on the allowlist writes to an account with
\* OTP self-approval; its messages may be handled by concurrent tasks, and
\* time passes.
OtpConfig == [DefaultConfig EXCEPT !.otp_cooldown_secs = 150]

\* the code the manager generates
GeneratedCode == <<"1", "2", "3", "4", "5", "6">>

\* what the peer writes: the code (with a blank before it), another code,
\* ordinary chatter
OtpTexts == {<<" ">> \o GeneratedCode, <<"6", "5", "4", "3", "2", "1">>, Hi}

OtpMessages == {InboundMessage(Alice, Alice, FALSE, MaxOtpSends + 1, Some(t)) : t \in OtpTexts}

\* the transport performs the first send_cap sends and fails afterwards
SendsUntilCap(ok) == ok \/ next_id > send_cap

OtpInit ==
    /\ AccessIdle
    /\ BenchIdle
    /\ RuntimeIdle
    /\ StoreIdle
    /\ send_cap = MaxOtpSends

OtpNext ==
    \/ \E a \in AccountIds : StartAccount(a, OtpConfig, TRUE, TRUE, Ok)
    \/ \E h \in Handlers, a \in AccountIds, m \in OtpMessages, ok \in BOOLEAN :
          HandleMessage(h, a, m, Some(OwnPn), Some(OwnLid), ok, TRUE, QuietEnv)
    \/ \E h \in Handlers, ok \in {b \in BOOLEAN : SendsUntilCap(b)} : OtpVerify(h, ok)
    \/ \E h \in Handlers, ok \in {b \in BOOLEAN : SendsUntilCap(b)} :
          OtpInitiate(h, GeneratedCode, ok)
    \/ Tick(150)

SpecOtp == OtpInit /\ [][OtpNext]_vars

(***************************************************************************)
(* Claims on the inbound handler                                           *)
(***************************************************************************)
HandledMessage == last.stage = "message"

\* C5: an owner self-chat message (is_from_me, or chat and sender both the
\* account's own PN/LID) that is not dropped as an echo is processed with
\* access granted under every dm_policy and group_policy; check_access is
\* not consulted for it and it never enters the OTP flow.
C5_OwnerSelfChatBypassesAccess ==
    (/\ HandledMessage
     /\ from_me_or_owner(unwrap(last.msg), last.own_pn, last.own_lid)
     /\ ~last.dropped)
    => /\ last.owner
       /\ last.access = Ok
       /\ ~last.checked
       /\ last.logged = Some(TRUE)
       /\ \A i \in DOMAIN last.events :
             last.events[i].type = "InboundMessage" /\ last.events[i].access_granted
       /\ last.otp = "none"
       /\ pc[last.h].stage = "idle"

\* an owner message recognised by its JIDs alone is dispatched to the chat
\* backend although direct messages are disabled
C5_Witness ==
    /\ HandledMessage
    /\ last.owner
    /\ ~unwrap(last.msg).is_from_me
    /\ state_ref[last.account].config.dm_policy = "Disabled"
    /\ last.access = Ok
    /\ Len(last.dispatched) = 1

\* C6: a message with is_from_me, or with chat and sender both the owner,
\* is dropped when its chat is not the owner's self-chat, or its id is in
\* the recently-sent buffer, or its text ends with the watermark; a dropped
\* message causes no log entry, no event, no OTP action, no reply and no
\* dispatch.
C6_SelfEchoSuppressed ==
    HandledMessage =>
        LET msg == unwrap(last.msg)
        IN  /\ (/\ from_me_or_owner(msg, last.own_pn, last.own_lid)
                 /\ \/ ~is_owner_user(msg.chat, last.own_pn, last.own_lid)
                    \/ last.id_in_buffer
                    \/ has_bot_watermark(message_text(msg)))
                => last.dropped
            /\ last.dropped =>
                  /\ last.logged = None
                  /\ last.events = <<>>
                  /\ last.replies = <<>>
                  /\ last.dispatched = <<>>
                  /\ last.otp = "none"
                  /\ pc[last.h].stage = "idle"

\* a self-chat message without watermark is dropped for its id alone
C6_Witness ==
    /\ HandledMessage
    /\ last.dropped
    /\ last.id_in_buffer
    /\ is_owner_user(unwrap(last.msg).chat, last.own_pn, last.own_lid)
    /\ ~has_bot_watermark(message_text(unwrap(last.msg)))

\* C3: a config installed by update_account_config takes effect without a
\* restart: every message handled afterwards is access-checked and
\* model-routed against the config the registry holds for the account.
C3_HotUpdateTakesEffect ==
    (HandledMessage /\ ~last.dropped /\ last.checked /\ is_some(last.reg_config))
    => LET msg == unwrap(last.msg)
           cfg == unwrap(last.reg_config)
       IN  /\ last.access =
                 check_access(cfg, msg.is_group, to_string(msg.sender),
                              Some(<<msg.sender.user>>),
                              IF msg.is_group THEN Some(to_string(msg.chat)) ELSE None)
           /\ \A i \in DOMAIN last.dispatched :
                 last.dispatched[i].kind = "chat" => last.dispatched[i].model = cfg.model

\* C7: every successful send of the account, by the handler or by the
\* outbound sender, records its id where the handler sees it: a from-me
\* self-chat message carrying the id of an earlier send is dropped, with
\* or without watermark.
C7_SentIdsSeenByHandler ==
    (/\ HandledMessage
     /\ unwrap(last.msg).is_from_me
     /\ is_owner_user(unwrap(last.msg).chat, last.own_pn, last.own_lid)
     /\ last.id_was_sent)
    => last.dropped

(***************************************************************************)
(* Claims on the OTP escalation flow                                       *)
(***************************************************************************)
Terminal == {"Approved", "Expired", "LockedOut"}

\* no call before the i-th of record L consumed the challenge
PendingBefore(L, i) == \A j \in 2..(i - 1) : L[j].result \notin Terminal

\* the peer has a challenge that was created, not consumed and is not
\* expired at time t
ChallengeLive(peer, t) ==
    /\ peer \in DOMAIN otp_calls
    /\ PendingBefore(otp_calls[peer], Len(otp_calls[peer]) + 1)
    /\ t < otp_calls[peer][1].at + OTP_EXPIRY_SECS

WrongCodes(L) == {i \in 2..Len(L) : L[i].result = "WrongCode"}

\* handler task h completes the initiate call it was about to make
InitiateReturns(h) == pc[h].stage = "initiate" /\ pc'[h].stage = "idle"

PeerOf(h) == to_string(unwrap(pc[h].msg).sender)

\* C8: initiate for a peer with a non-expired pending challenge returns
\* AlreadyPending and leaves the stored code, expiry and attempt counter
\* unchanged; the handler only resends the prompt and emits no new
\* OtpChallenge event.
C8_SecondInitiateAlreadyPending ==
    [][\A h \in Handlers :
          (InitiateReturns(h) /\ ChallengeLive(PeerOf(h), now)) =>
              LET a == pc[h].account
                  L == otp_calls[PeerOf(h)]
              IN  /\ last'.otp = "AlreadyPending"
                  /\ accounts'[a].otp = accounts[a].otp
                  /\ accounts'[a].otp.challenges[PeerOf(h)] =
                        [code |-> L[1].code,
                         expires_at |-> L[1].at + OTP_EXPIRY_SECS,
                         attempts |-> Cardinality(WrongCodes(L))]
                  /\ otp_calls' = otp_calls
                  /\ Len(last'.replies) = 1
                  /\ last'.replies[1].text = OTP_CHALLENGE_MSG \o BOT_WATERMARK
                  /\ last'.events = <<>>]_vars

\* a second task found the challenge the first had just created
C8_Witness ==
    /\ last.stage = "otp_init"
    /\ last.otp = "AlreadyPending"
    /\ Len(last.replies) = 1
    /\ last.events = <<>>
    /\ ChallengeLive(to_string(unwrap(last.msg).sender), last.at)

\* the verify calls of record L that presented a wrong code to a pending,
\* non-expired challenge
WrongAttempts(L) ==
    {i \in 2..Len(L) : /\ L[i].call = "verify"
                        /\ PendingBefore(L, i)
                        /\ L[i].at < L[1].at + OTP_EXPIRY_SECS
                        /\ L[i].code # L[1].code}

\* what the k-th wrong code in a row is answered with
WrongCodeAnswer(k) ==
    IF k = 1 THEN <<"WrongCode", 2>>
    ELSE IF k = 2 THEN <<"WrongCode", 1>>
    ELSE <<"LockedOut", 0>>

LockedOutAt(L) == {L[i].at : i \in {j \in 2..Len(L) : L[j].result = "LockedOut"}}

WrongCodesInOrder ==
    \A a \in DOMAIN accounts, p \in DOMAIN otp_calls :
        LET L == otp_calls[p]
            W == WrongAttempts(L)
        IN  /\ Cardinality(W) <= 3
            /\ \A i \in W :
                  /\ <<L[i].result, L[i].attempts_left>> =
                        WrongCodeAnswer(Cardinality({j \in W : j <= i}))
                  /\ is_otp_candidate(L[i].code)
            /\ LockedOutAt(L) # {} => ~has_pending(accounts[a].otp, p)

CooldownHolds ==
    \A h \in Handlers :
        (/\ InitiateReturns(h)
         /\ PeerOf(h) \in DOMAIN otp_calls
         /\ LockedOutAt(otp_calls[PeerOf(h)]) # {}) =>
            LET a == pc[h].account
                p == PeerOf(h)
                cooldown == state_ref[a].config.otp_cooldown_secs
            IN  IF \E t \in LockedOutAt(otp_calls[p]) : now < t + cooldown
                THEN /\ last'.otp = "LockedOut"
                     /\ ~has_pending(accounts'[a].otp, p)
                     /\ otp_calls' = otp_calls
                     /\ last'.events = <<>>
                ELSE last'.otp = "Created"

\* C9: three wrong 6-digit codes in a row for a pending, non-expired
\* challenge are answered WrongCode{2}, WrongCode{1}, LockedOut; the third
\* clears the challenge and starts a cooldown of otp_cooldown_secs, during
\* which every initiate for the peer returns LockedOut and creates no
\* challenge.
C9_ThreeWrongCodesLockOut == []WrongCodesInOrder /\ [][CooldownHolds]_vars

\* the peer was locked out by its third wrong code and asked again during
\* the cooldown
C9_Witness ==
    /\ last.stage = "otp_init"
    /\ last.otp = "LockedOut"
    /\ LET L == otp_calls[to_string(unwrap(last.msg).sender)]
       IN  /\ Len(L) = 4
           /\ <<L[2].result, L[3].result, L[4].result>> =
                 <<"WrongCode", "WrongCode", "LockedOut">>
           /\ last.at < L[4].at + OtpConfig.otp_cooldown_secs

\* C10: a challenge is consumed exactly once: verify answers Approved (the
\* code, before expiry), Expired (any candidate after the expiry) or
\* LockedOut (third wrong code) and removes the challenge; has_pending is
\* false afterwards and further verify calls return NoPending until a new
\* initiate succeeds, so a code is approved at most once.
C10_ChallengeConsumedOnce ==
    \A a \in DOMAIN accounts, p \in DOMAIN otp_calls :
        LET L == otp_calls[p]
            expiry == L[1].at + OTP_EXPIRY_SECS
        IN  /\ L[1].result = "Created"
            /\ \A i \in 2..Len(L) :
                  /\ L[i].call = "verify"
                  /\ IF PendingBefore(L, i)
                     THEN IF L[i].at >= expiry THEN L[i].result = "Expired"
                          ELSE IF L[i].code = L[1].code THEN L[i].result = "Approved"
                          ELSE L[i].result \in {"WrongCode", "LockedOut"}
                     ELSE L[i].result = "NoPending"
            /\ PendingBefore(L, Len(L) + 1) <=> has_pending(accounts[a].otp, p)
            /\ Cardinality({i \in 2..Len(L) : L[i].result = "Approved"}) <= 1

\* a second task presents the code after the first was approved with it
C10_Witness ==
    \E p \in DOMAIN otp_calls :
        LET L == otp_calls[p]
        IN  /\ Len(L) >= 3
            /\ L[Len(L) - 1].result = "Approved"
            /\ L[Len(L)].result = "NoPending"
            /\ L[Len(L)].code = L[1].code

(***************************************************************************)
(* The access gate as a pure function: a caller edits a config value and   *)
(* calls check_access with it (the shape of access.rs's tests).            *)
(***************************************************************************)
\* strings an allowlist entry, a peer id or a username may be
AccessIds == {<<"15551234567">>, <<"alice">>}

AccessPeers == {<<"15551234567">>, <<"15559876543", "s.whatsapp.net">>}

AccessUsernames == {None, Some(<<"alice">>), Some(<<"bob">>)}

AccessGroupEntries == {<<"grp1">>}

AccessGroupIds == {None, Some(<<"grp1">>), Some(<<"grp2">>)}

\* no plugin constructed: check_access is called on a config alone
RuntimeOff ==
    /\ accounts = EmptyMap
    /\ state_ref = EmptyMap
    /\ now = 0
    /\ next_id = 1
    /\ send_cap = 0
    /\ pc = None
    /\ last = None
    /\ otp_calls = EmptyMap
    /\ tokens = <<>>
    /\ tasks = {}
    /\ probe_cache = EmptyMap
    /\ life = None

AccessInit ==
    /\ RuntimeOff
    /\ BenchIdle
    /\ StoreIdle
    /\ acfg \in {WhatsAppAccountConfig(dm, gp, <<>>, <<>>, TRUE, 300, None) :
                    dm \in DmPolicy, gp \in GroupPolicy}
    /\ acheck = None
    /\ aedit = "none"

\* an edit makes the last call's result one of an earlier config
NoteEdit(kind) ==
    /\ aedit' = kind
    /\ acheck' = IF is_some(acheck)
                 THEN Some([unwrap(acheck) EXCEPT !.stale = TRUE])
                 ELSE None
    /\ UNCHANGED <<runtimeVars, storeVars, benchVars>>

RemoveAt(s, i) == SubSeq(s, 1, i - 1) \o SubSeq(s, i + 1, Len(s))

SetDmPolicy(p) ==
    /\ p # acfg.dm_policy
    /\ acfg' = [acfg EXCEPT !.dm_policy = p]
    /\ NoteEdit("policy")

SetGroupPolicy(p) ==
    /\ p # acfg.group_policy
    /\ acfg' = [acfg EXCEPT !.group_policy = p]
    /\ NoteEdit("policy")

AllowlistPush(e) ==
    /\ Len(acfg.allowlist) < MaxAllow
    /\ acfg' = [acfg EXCEPT !.allowlist = Append(@, e)]
    /\ NoteEdit("added")

AllowlistRemove(i) ==
    /\ i \in DOMAIN acfg.allowlist
    /\ acfg' = [acfg EXCEPT !.allowlist = RemoveAt(@, i)]
    /\ NoteEdit(IF Len(acfg.allowlist) = 1 THEN "removed_last_dm" ELSE "removed")

GroupAllowlistPush(e) ==
    /\ Len(acfg.group_allowlist) < MaxAllow
    /\ acfg' = [acfg EXCEPT !.group_allowlist = Append(@, e)]
    /\ NoteEdit("added")

GroupAllowlistRemove(i) ==
    /\ i \in DOMAIN acfg.group_allowlist
    /\ acfg' = [acfg EXCEPT !.group_allowlist = RemoveAt(@, i)]
    /\ NoteEdit(IF Len(acfg.group_allowlist) = 1 THEN "removed_last_group" ELSE "removed")

\* the same DM peer, respectively the same group
SamePrincipal(a, b) ==
    /\ a.is_group = b.is_group
    /\ IF a.is_group THEN a.group_id = b.group_id ELSE a.peer_id = b.peer_id

CheckAccess(is_group, peer_id, username, group_id) ==
    LET input == [is_group |-> is_group, peer_id |-> peer_id,
                  username |-> username, group_id |-> group_id]
    IN  /\ acheck' = Some([input |-> input,
                           result |-> check_access(acfg, is_group, peer_id,
                                                   username, group_id),
                           stale |-> FALSE,
                           allowed_before |->
                               /\ is_some(acheck)
                               /\ unwrap(acheck).result = Ok
                               /\ SamePrincipal(unwrap(acheck).input, input)])
        /\ UNCHANGED <<acfg, aedit, runtimeVars, storeVars, benchVars>>

AccessNext ==
    \/ \E p \in DmPolicy : SetDmPolicy(p)
    \/ \E p \in GroupPolicy : SetGroupPolicy(p)
    \/ \E e \in AccessIds : AllowlistPush(e)
    \/ \E i \in 1..MaxAllow : AllowlistRemove(i)
    \/ \E e \in AccessGroupEntries : GroupAllowlistPush(e)
    \/ \E i \in 1..MaxAllow : GroupAllowlistRemove(i)
    \/ \E g \in BOOLEAN, p \in AccessPeers, u \in AccessUsernames, gid \in AccessGroupIds :
          CheckAccess(g, p, u, gid)

SpecAccess == AccessInit /\ [][AccessNext]_vars

(***************************************************************************)
(* Claims about the access gate.                                           *)
(***************************************************************************)
\* the call recorded in acheck was made with the config as it is now
FreshCheck == is_some(acheck) /\ ~unwrap(acheck).stale

\* C1: with dm_policy = Allowlist and an empty allowlist, check_access on a
\* DM returns NotOnAllowlist for every peer id and every username, present
\* or absent: the empty allowlist never behaves like Open.
C1_EmptyDmAllowlistDeniesAll ==
    (acfg.dm_policy = "Allowlist" /\ acfg.allowlist = <<>>) =>
        /\ \A p \in AccessPeers, u \in AccessUsernames, gid \in AccessGroupIds :
              check_access(acfg, FALSE, p, u, gid) = "NotOnAllowlist"
        /\ (FreshCheck /\ ~unwrap(acheck).input.is_group) =>
              unwrap(acheck).result = "NotOnAllowlist"

C1_Witness ==
    /\ FreshCheck
    /\ acfg.dm_policy = "Allowlist" /\ acfg.allowlist = <<>>
    /\ ~unwrap(acheck).input.is_group
    /\ is_some(unwrap(acheck).input.username)
    /\ unwrap(acheck).result = "NotOnAllowlist"

\* C2: when the last entry has just been removed from the DM allowlist
\* (group allowlist) under the Allowlist policy, the next check_access for
\* a peer (group) that the preceding check allowed returns NotOnAllowlist
\* (GroupNotOnAllowlist): no earlier "allowed" result survives the edit.
C2_RemovingLastEntryDenies ==
    (FreshCheck /\ unwrap(acheck).allowed_before) =>
        /\ (/\ aedit = "removed_last_dm"
            /\ acfg.dm_policy = "Allowlist"
            /\ ~unwrap(acheck).input.is_group)
              => unwrap(acheck).result = "NotOnAllowlist"
        /\ (/\ aedit = "removed_last_group"
            /\ acfg.group_policy = "Allowlist"
            /\ unwrap(acheck).input.is_group)
              => unwrap(acheck).result = "GroupNotOnAllowlist"

C2_Witness ==
    /\ FreshCheck
    /\ unwrap(acheck).allowed_before
    /\ aedit = "removed_last_group"
    /\ acfg.group_policy = "Allowlist"
    /\ unwrap(acheck).input.is_group
    /\ unwrap(acheck).result = "GroupNotOnAllowlist"

\* the decision table of the access gate, row by row
OnList(id, list) == id \in {list[i] : i \in DOMAIN list}

DecisionTable(config, is_group, peer_id, username, group_id) ==
    IF ~is_group
    THEN CASE config.dm_policy = "Disabled" -> "DmsDisabled"
           [] config.dm_policy = "Open" -> Ok
           [] config.dm_policy = "Allowlist" ->
                IF /\ config.allowlist # <<>>
                   /\ \/ OnList(peer_id, config.allowlist)
                      \/ \E u \in {username[i] : i \in DOMAIN username} :
                            OnList(u, config.allowlist)
                THEN Ok
                ELSE "NotOnAllowlist"
    ELSE CASE config.group_policy = "Disabled" -> "GroupsDisabled"
           [] config.group_policy = "Open" -> Ok
           [] config.group_policy = "Allowlist" ->
                IF /\ config.group_allowlist # <<>>
                   /\ \E g \in {group_id[i] : i \in DOMAIN group_id} :
                         OnList(g, config.group_allowlist)
                THEN Ok
                ELSE "GroupNotOnAllowlist"

\* C4: check_access equals the decision table for every input, the DM
\* fields (dm_policy, allowlist, peer id, username) never influence a group
\* decision, and the group fields (group_policy, group_allowlist, group id)
\* never influence a DM decision.
C4_DecisionTable ==
    /\ \A g \in BOOLEAN, p \in AccessPeers, u \in AccessUsernames, gid \in AccessGroupIds :
          check_access(acfg, g, p, u, gid) = DecisionTable(acfg, g, p, u, gid)
    /\ FreshCheck =>
          LET i == unwrap(acheck).input
          IN  /\ unwrap(acheck).result =
                    DecisionTable(acfg, i.is_group, i.peer_id, i.username, i.group_id)
              /\ i.is_group =>
                    \A dm \in DmPolicy, p \in AccessPeers, u \in AccessUsernames :
                       \A al \in {<<>>} \cup {<<e>> : e \in AccessIds \cup AccessPeers} :
                          check_access([acfg EXCEPT !.dm_policy = dm, !.allowlist = al],
                                       TRUE, p, u, i.group_id) = unwrap(acheck).result
              /\ ~i.is_group =>
                    \A gp \in GroupPolicy, gid \in AccessGroupIds :
                       \A gal \in {<<>>} \cup {<<e>> : e \in AccessGroupEntries} :
                          check_access([acfg EXCEPT !.group_policy = gp,
                                                    !.group_allowlist = gal],
                                       FALSE, i.peer_id, i.username, gid)
                             = unwrap(acheck).result

C4_Witness ==
    /\ FreshCheck
    /\ unwrap(acheck).input.is_group
    /\ acfg.group_policy = "Allowlist"
    /\ acfg.dm_policy = "Disabled"
    /\ unwrap(acheck).result = Ok

(***************************************************************************)
(* The protocol stores: a caller applies each operation to a MemoryStore   *)
(* and to a SledStore opened on a fresh path, and may close and reopen the *)
(* latter.  Each record family has its own trees, so a run operates on one *)
(* family.                                                                 *)
(***************************************************************************)
Families ==
    KvFamilies \cup {"device_id", "lid_mappings", "mutation_macs", "sender_key_forget_marks",
                     "skdm_recipients"}

\* group JIDs, one the beginning of the other
GroupJids == {<<"g", "1">>, <<"g", "1", "0">>}

\* participants: a user JID and a device JID, which carries a colon
Participants == {<<"p">>, <<"q", ":", "3">>}

Addresses == {<<"a">>, <<"b", ".", "1">>}

Blobs == {<<1>>, <<2, 255>>}

PrekeyIds == {1, 256}

MessageIds == {<<"m">>, <<"n">>}

HashStates == {[version |-> 1], [version |-> 2]}

Lids == {<<"L", "1">>, <<"L", "2">>}

Phones == {<<"5", "5">>, <<"5", "6">>}

MacNames == {<<"r">>, <<"s">>}

MacVersions == {2, 10}

\* two index MACs of different lengths, the shorter the tail of the longer,
\* and one that is never stored
IndexMac1 == <<1>>

IndexMac2 == <<171, 1>>

IndexMac3 == <<9>>

AppStateMutationMAC(index_mac, value_mac) == [index_mac |-> index_mac, value_mac |-> value_mac]

\* the put_mutation_macs calls of a run
MacPuts ==
    ({<<"r">>} \X MacVersions \X {<<AppStateMutationMAC(IndexMac1, <<7>>)>>,
                                   <<AppStateMutationMAC(IndexMac1, <<8>>)>>,
                                   <<AppStateMutationMAC(IndexMac2, <<7>>)>>})
    \cup {<<<<"s">>, 2, <<AppStateMutationMAC(IndexMac1, <<7>>)>>>>,
          <<<<"r">>, 2, <<AppStateMutationMAC(IndexMac1, <<7>>),
                         AppStateMutationMAC(IndexMac2, <<8>>)>>>>}

\* the delete_mutation_macs calls of a run
MacDeletes ==
    ({<<"r">>} \X {<<IndexMac1>>, <<IndexMac2>>, <<IndexMac3>>, <<IndexMac1, IndexMac2>>})
    \cup {<<<<"s">>, <<IndexMac1>>>>}

\* the caller's keys of a family
FamilyKeys(t) ==
    CASE t \in {"prekeys", "signed_prekeys"} -> PrekeyIds
      [] t = "base_keys" -> Addresses \X MessageIds
      [] t = "device_data" -> {<<>>}
      [] OTHER -> Addresses

\* the values a caller may store under a key
FamilyValues(t, k) ==
    CASE t = "prekeys" -> Blobs \X BOOLEAN
      [] t = "app_state_versions" -> HashStates
      [] t = "sync_keys" -> {[key_data |-> b] : b \in Blobs}
      [] t = "device_list_records" -> {[user |-> k, devices |-> d] : d \in {<<0>>, <<0, 1>>}}
      [] t = "device_data" -> {[pn |-> p] : p \in Phones}
      [] OTHER -> Blobs


StoreInit ==
    /\ AccessIdle
    /\ BenchIdle
    /\ RuntimeIdle
    /\ send_cap = 0
    /\ family \in Families
    /\ mem = MemoryStore_new
    /\ sled = EmptyTrees
    /\ sled_handle = Some(SledStore_open(EmptyTrees))
    /\ store_epoch = 0
    /\ store_ret = NoRet
    /\ shadow = IF family = "mutation_macs" THEN NoMacs ELSE <<>>

StoreNext ==
    \/ SledReopen
    \/ StoreCreate
    \/ \E k \in FamilyKeys(family) : \E v \in FamilyValues(family, k) : StorePut(family, k, v)
    \/ \E k \in FamilyKeys(family) : StoreGet(family, k)
    \/ \E k \in FamilyKeys(family) : StoreRemove(family, k)
    \/ \E k \in Addresses \X MessageIds : \E current \in Blobs : StoreHasSameBaseKey(k, current)
    \/ StoreExists
    \/ StoreLoadAllSignedPrekeys
    \/ \E l \in Lids : \E ph \in Phones : PutLidMapping(LidPnMappingEntry(l, ph))
    \/ \E l \in Lids : GetLidMapping(l)
    \/ \E ph \in Phones : GetPnMapping(ph)
    \/ GetAllLidMappings
    \/ \E c \in MacPuts : PutMutationMacs(c[1], c[2], c[3])
    \/ \E n \in MacNames : \E i \in {IndexMac1, IndexMac2} : GetMutationMac(n, i)
    \/ \E c \in MacDeletes : DeleteMutationMacs(c[1], c[2])
    \/ \E g \in GroupJids : \E pt \in Participants : MarkForgetSenderKey(g, pt)
    \/ \E g \in GroupJids : ConsumeForgetMarks(g)
    \/ \E g \in GroupJids : \E pt \in Participants : AddSkdmRecipients(g, <<pt>>)
    \/ \E g \in GroupJids : GetSkdmRecipients(g)
    \/ \E g \in GroupJids : ClearSkdmRecipients(g)

SpecStore == StoreInit /\ [][StoreNext]_vars

\* C11: on the durable backend create never returns an id it has returned
\* before: the ids are 0, 1, 2, ... in call order, continuing across
\* close-and-reopen cycles.
C11_DeviceIdsNeverRepeat ==
    family = "device_id" =>
        /\ \A i \in DOMAIN shadow : shadow[i].id = i - 1
        /\ \A i, j \in DOMAIN shadow : i # j => shadow[i].id # shadow[j].id

\* ids were created before and after a reopen
C11_Witness ==
    /\ family = "device_id"
    /\ Len(shadow) = MaxCreates
    /\ shadow[1].epoch < shadow[2].epoch
    /\ shadow[2].epoch < shadow[3].epoch

\* a read of one key answered by both backends
ReadOps == {"get", "has_same", "exists"}

\* C12: a get/load of k returns the last value written for k, or absent after
\* a remove, on both backends and across reopening the durable one; put and
\* remove succeed, also for a key that is not present.
C12_StorageRoundTrip ==
    store_ret.op \in ReadOps \cup {"put", "remove"} =>
        /\ store_ret.mem = store_ret.expect
        /\ store_ret.sled = store_ret.expect

\* the same for every family but the LID / phone-number mappings
RoundTripOfPlainFamilies ==
    family \in KvFamilies => C12_StorageRoundTrip

\* the marks a backend holds are those recorded and not yet consumed
MarksAsRecorded(marks) ==
    DOMAIN marks = UNION {{colon_key(g, pt) : pt \in shadow[g]} : g \in DOMAIN shadow}

\* C14: consume_forget_marks(g) returns exactly the participants marked for g
\* since the last consume of g, each once, and clears them, so that a consume
\* of g right afterwards returns nothing; the marks of every other group are
\* neither returned nor cleared.  On both backends.
C14_ConsumeReturnsAndClears ==
    family = "sender_key_forget_marks" =>
        /\ MarksAsRecorded(sled["sender_key_forget_marks"])
        /\ MarksAsRecorded(mem.trees["sender_key_forget_marks"])
        /\ store_ret.op = "consume" =>
               /\ store_ret.sled = store_ret.expect
               /\ store_ret.mem = store_ret.expect
               /\ consumed(sled["sender_key_forget_marks"], store_ret.key) = EmptyMap
               /\ consumed(mem.trees["sender_key_forget_marks"], store_ret.key) = EmptyMap

\* a consume returned two participants while the other group keeps its mark,
\* after the durable store was reopened
C14_Witness ==
    /\ family = "sender_key_forget_marks"
    /\ store_ret.op = "consume"
    /\ DOMAIN store_ret.sled = Participants
    /\ DOMAIN shadow # {}
    /\ store_epoch > 0

\* every operation but get_mutation_mac answers the same on both backends
BackendsAgreeElsewhere ==
    ~(family = "mutation_macs" /\ store_ret.op = "get") => store_ret.mem = store_ret.sled

\* C13: every store operation returns the same result on the in-memory and
\* on the durable backend, multi-record results compared as sets, also
\* get_mutation_mac when an index MAC was written at several versions.
C13_BackendsEquivalent == store_ret.mem = store_ret.sled

\* the stored MACs without the exact matches of a deletion
ExactRemoval(macs, name, index_macs) ==
    [k \in {x \in DOMAIN macs :
                ~\E i \in DOMAIN index_macs : \E v \in MacVersions :
                    x = mac_key(name, v, index_macs[i])} |-> macs[k]]

DeletedExactly ==
    store_ret'.op = "delete_macs" =>
        LET name == store_ret'.key[1]
            index_macs == store_ret'.key[2]
        IN  /\ sled'["mutation_macs"] = ExactRemoval(sled["mutation_macs"], name, index_macs)
            /\ mem'.trees["mutation_macs"] =
                   ExactRemoval(mem.trees["mutation_macs"], name, index_macs)
            /\ \A i \in DOMAIN index_macs :
                   /\ sled_get_mutation_mac(sled', name, index_macs[i]) = None
                   /\ mem_get_mutation_mac(mem', name, index_macs[i]) = {None}

\* C15: delete_mutation_macs removes, across all versions, exactly the stored
\* MACs of the name whose index MAC is one of those given, tolerates index
\* MACs that are not stored and leaves every other stored MAC unchanged,
\* also one of a different length that shares trailing bytes; afterwards
\* get_mutation_mac is absent for each deleted index MAC.
C15_DeleteIsExactMatch == [][DeletedExactly]_vars

(***************************************************************************)
(* The lifecycle: the gateway starts and stops two accounts, their bots    *)
(* deliver connection events, and the status calls are made in between.    *)
(***************************************************************************)
LifeAccounts == {"wa1", "wa2"}

\* the account whose bot delivers events and whose status is asked for
ObservedAccounts == {"wa1"}

QrCodes == {<<"2", "@", "a">>, <<"2", "@", "b">>}

ConnectionEvents ==
    {[type |-> "PairingQrCode", code |-> c] : c \in QrCodes}
    \cup {[type |-> "Connected", push_name |-> None],
          [type |-> "Disconnected"],
          [type |-> "LoggedOut"],
          [type |-> "PairError", err |-> "PairError"]}

LifeInit ==
    /\ AccessIdle
    /\ BenchIdle
    /\ RuntimeIdle
    /\ StoreIdle
    /\ send_cap = 0

LifeNext ==
    \/ \E a \in LifeAccounts, sink \in BOOLEAN, outcome \in StartOutcomes :
           StartAccount(a, DefaultConfig, TRUE, sink, outcome)
    \/ \E a \in LifeAccounts : StopAccount(a)
    \/ \E a \in ObservedAccounts, ev \in ConnectionEvents : HandleEvent(a, ev)
    \/ \E a \in ObservedAccounts : Probe(a)
    \/ \E a \in ObservedAccounts : LatestQr(a)
    \/ Tick(150)

SpecLife == LifeInit /\ [][LifeNext]_vars

\* C16: start_account either fails and leaves the registry as it was,
\* registering no state and spawning no task, or succeeds with the id in the
\* registry (has_account, account_ids) under a fresh token that is not
\* cancelled, not connected and without a pairing code.
C16_StartRegistersOrLeaves ==
    life.op = "start" =>
        IF life.result = Ok
        THEN /\ has_account(life.account)
             /\ life.account \in account_ids
             /\ accounts[life.account].cancel \notin DOMAIN life.tokens_before
             /\ accounts[life.account].cancel \in DOMAIN tokens
             /\ ~tokens[accounts[life.account].cancel]
             /\ ~accounts[life.account].connected
             /\ accounts[life.account].latest_qr = None
        ELSE /\ accounts = life.accounts_before
             /\ tasks = life.tasks_before

\* a start failed in the client builder while another account was registered
C16_Witness ==
    /\ life.op = "start"
    /\ life.result = "Whatsapp"
    /\ accounts # EmptyMap
    /\ life.account \notin DOMAIN accounts

\* C17: stop_account always succeeds; for a registered id it cancels that
\* account's token and removes the id, leaving the other accounts alone; for
\* an unknown id it changes nothing and cancels no token.
C17_StopCancelsAndRemoves ==
    life.op = "stop" =>
        /\ life.result = Ok
        /\ IF life.account \in DOMAIN life.accounts_before
           THEN /\ tokens[life.accounts_before[life.account].cancel]
                /\ ~has_account(life.account)
                /\ accounts = MapRemove(life.accounts_before, life.account)
                /\ \A t \in DOMAIN tokens :
                       t # life.accounts_before[life.account].cancel =>
                           tokens[t] = life.tokens_before[t]
           ELSE /\ accounts = life.accounts_before
                /\ tokens = life.tokens_before

\* one of two registered accounts was stopped
C17_Witness ==
    /\ life.op = "stop"
    /\ life.account \in DOMAIN life.accounts_before
    /\ accounts # EmptyMap

\* C18: a probe of a started account that is not served from the cache
\* reports the outcome of the last connectivity event handled for it: true
\* after Connected, false after Disconnected or LoggedOut.
C18_ProbeReportsConnectivity ==
    (/\ life.op = "probe"
     /\ ~life.cached
     /\ has_account(life.account)
     /\ is_some(life.conn[life.account]))
        => life.snap.connected = unwrap(life.conn[life.account])

\* C19: latest_qr of a started account returns the code of the most recent
\* PairingQrCode event, and nothing once a Connected event was handled after
\* it; handling a PairingQrCode event emits the outward event with the code.
C19_LatestQrFollowsEvents ==
    /\ (life.op = "latest_qr" /\ has_account(life.account))
           => life.result = life.qr[life.account]
    /\ (life.op = "event" /\ life.event.type = "PairingQrCode"
            /\ state_ref[life.account].event_sink)
           => PairingEvent("PairingQrCode", life.account, life.event.code) \in life.emitted

(***************************************************************************)
(* The sent-id buffer: the outbound sender records the id of every message *)
(* it sent for a started account.                                          *)
(***************************************************************************)
\* the id of the n-th message sent, as a string
sent_id(n) == <<"m", "s", "g">> \o u64_to_string(n)

\* WhatsAppOutbound::record_sent_id -> AccountState::record_sent_id
RecordSentId(a) ==
    /\ a \in DOMAIN accounts
    /\ next_id <= send_cap
    /\ accounts' = [accounts EXCEPT ![a].recent_sent_ids = record_sent_id(@, sent_id(next_id))]
    /\ next_id' = next_id + 1
    /\ life' = LifeOp("record_sent_id", a, Ok)
    /\ UNCHANGED <<state_ref, now, send_cap, pc, last, otp_calls, tokens, tasks, probe_cache,
                   accessVars, storeVars, benchVars>>

\* WhatsAppPlugin::stop_account and a later start give the id a new buffer;
\* the run records into the buffer of one started account
SentInit ==
    /\ AccessIdle
    /\ BenchIdle
    /\ RuntimeIdle
    /\ StoreIdle
    /\ send_cap = MaxRecorded

SentNext ==
    \/ \E a \in AccountIds : StartAccount(a, DefaultConfig, TRUE, TRUE, Ok)
    \/ \E a \in AccountIds : RecordSentId(a)

SpecSent == SentInit /\ [][SentNext]_vars

\* the ids recorded so far, oldest first
Recorded == [i \in 1..(next_id - 1) |-> sent_id(i)]

\* how many of them the buffer is to hold
Kept == IF next_id - 1 < SENT_IDS_CAPACITY THEN next_id - 1 ELSE SENT_IDS_CAPACITY

\* C20: after n record_sent_id calls the buffer holds exactly the
\* min(n, 256) most recently recorded ids in recording order, never more
\* than 256, and was_sent_by_us(id) is true exactly for the ids that equal
\* one of them; the 257th id evicts the oldest and no other.
C20_SentIdBuffer ==
    \A a \in DOMAIN accounts :
        LET ids == accounts[a].recent_sent_ids
        IN  /\ Len(ids) <= SENT_IDS_CAPACITY
            /\ ids = SubSeq(Recorded, (next_id - 1) - Kept + 1, next_id - 1)
            /\ \A j \in 0..next_id :
                   was_sent_by_us(ids, sent_id(j)) <=> (next_id - 1) - Kept < j /\ j < next_id
            /\ ~was_sent_by_us(ids, <<"m", "s", "g">>)
            /\ ~was_sent_by_us(ids, <<"M", "S", "G", "2">>)

\* the 257th id was recorded: the first is gone, the second is still held
C20_Witness ==
    /\ next_id - 1 = SENT_IDS_CAPACITY + 1
    /\ \E a \in DOMAIN accounts :
           /\ Len(accounts[a].recent_sent_ids) = SENT_IDS_CAPACITY
           /\ ~was_sent_by_us(accounts[a].recent_sent_ids, sent_id(1))
           /\ was_sent_by_us(accounts[a].recent_sent_ids, sent_id(2))
           /\ was_sent_by_us(accounts[a].recent_sent_ids, sent_id(SENT_IDS_CAPACITY + 1))

(***************************************************************************)
(* The watermark functions of state.rs, applied to drawn inputs.           *)
(***************************************************************************)
MarkChars == {"a", ZWJ, ZWNJ}

TextsUpTo(n) == UNION {[1..k -> MarkChars] : k \in 0..n}

OptionalField == {None} \cup {Some(t) : t \in TextsUpTo(MaxField)}

MarkMessages ==
    {[conversation |-> c, extended_text |-> e] : c \in OptionalField, e \in OptionalField}

Drawn(fn, text, msg) ==
    [fn |-> fn, text |-> text, msg |-> msg, done |-> FALSE,
     marked |-> FALSE, out |-> msg, kind |-> "none"]

\* has_bot_watermark(&text)
HasBotWatermark ==
    /\ calc # None
    /\ calc.fn = "has_bot_watermark"
    /\ ~calc.done
    /\ calc' = [calc EXCEPT !.done = TRUE, !.marked = has_bot_watermark(calc.text)]
    /\ UNCHANGED thr
    /\ UNCHANGED <<accessVars, runtimeVars, storeVars>>

\* watermark_message(&mut msg)
WatermarkMessage ==
    /\ calc # None
    /\ calc.fn = "watermark_message"
    /\ ~calc.done
    /\ calc' = [calc EXCEPT !.done = TRUE, !.out = watermark_message(calc.msg)]
    /\ UNCHANGED thr
    /\ UNCHANGED <<accessVars, runtimeVars, storeVars>>

MarkInit ==
    /\ AccessIdle
    /\ RuntimeIdle
    /\ StoreIdle
    /\ send_cap = 0
    /\ thr = <<>>
    /\ calc \in {Drawn("has_bot_watermark", t, TextMessage(<<>>)) : t \in TextsUpTo(MaxText)}
             \cup {Drawn("watermark_message", <<>>, m) : m \in MarkMessages}

MarkNext == HasBotWatermark \/ WatermarkMessage

SpecMark == MarkInit /\ [][MarkNext]_vars

\* the text ends with ZWJ, ZWNJ, ZWJ, ZWNJ, read character by character
EndsWithMarker(t) ==
    /\ Len(t) >= 4
    /\ t[Len(t) - 3] = ZWJ
    /\ t[Len(t) - 2] = ZWNJ
    /\ t[Len(t) - 1] = ZWJ
    /\ t[Len(t)] = ZWNJ

\* the field of the message after watermark_message, given the field before
Marked(before, after) ==
    IF is_some(before)
    THEN /\ after = Some(unwrap(before) \o <<ZWJ, ZWNJ, ZWJ, ZWNJ>>)
         /\ has_bot_watermark(unwrap(after))
    ELSE after = None

ImageMessage(caption) == [caption |-> caption]

AudioMessage(ptt) == [ptt |-> ptt]

VideoMessage(caption, jpeg_thumbnail) ==
    [caption |-> caption, jpeg_thumbnail |-> jpeg_thumbnail]

DocumentMessage(caption, file_name, mimetype) ==
    [caption |-> caption, file_name |-> file_name, mimetype |-> mimetype]

LocationMessage(degrees_latitude, degrees_longitude, is_live) ==
    [degrees_latitude |-> degrees_latitude, degrees_longitude |-> degrees_longitude,
     is_live |-> is_live]

LiveLocationMessage(degrees_latitude, degrees_longitude) ==
    [degrees_latitude |-> degrees_latitude, degrees_longitude |-> degrees_longitude]

Present(part) == {None, Some(part)}

PayloadMessages ==
    {[conversation |-> c, extended_text |-> e, image |-> i, audio |-> a,
      video |-> v, document |-> d, location |-> l, live_location |-> ll] :
        c \in {None, Some(<<>>), Some(Hi)}, e \in {None, Some(Hi)},
        i \in Present(ImageMessage(None)),
        a \in {None} \cup {Some(AudioMessage(p)) : p \in {None, Some(TRUE), Some(FALSE)}},
        v \in Present(VideoMessage(None, None)),
        d \in Present(DocumentMessage(None, None, None)),
        l \in Present(LocationMessage(None, None, None)),
        ll \in Present(LiveLocationMessage(None, None))}

\* let message_kind = classify_message(&msg, text), with text as
\* handle_message extracts it
ClassifyMessage ==
    /\ calc # None
    /\ calc.fn = "classify_message"
    /\ ~calc.done
    /\ calc' = [calc EXCEPT !.done = TRUE,
                            !.kind = classify_message(calc.msg, calc.text)]
    /\ UNCHANGED thr
    /\ UNCHANGED <<accessVars, runtimeVars, storeVars>>

KindInit ==
    /\ AccessIdle
    /\ RuntimeIdle
    /\ StoreIdle
    /\ send_cap = 0
    /\ thr = <<>>
    /\ calc \in {Drawn("classify_message", message_text(m), m) : m \in PayloadMessages}

KindNext == ClassifyMessage

SpecKind == KindInit /\ [][KindNext]_vars

\* C22: classify_message follows the priority order image, audio (Voice
\* when push-to-talk, else Audio), video, document, static or live location,
\* non-empty text, Other, for every combination of present parts; an image
\* with text is Photo.
C22_ClassifyPriority ==
    (calc # None /\ calc.done /\ calc.fn = "classify_message") =>
        LET m == calc.msg
            k == calc.kind
            img == m.image # None
            aud == m.audio # None
            vid == m.video # None
            doc == m.document # None
            loc == m.location # None \/ m.live_location # None
        IN  /\ img => k = "Photo"
            /\ (~img /\ aud) =>
                  k = IF m.audio = Some(AudioMessage(Some(TRUE))) THEN "Voice" ELSE "Audio"
            /\ (~img /\ ~aud /\ vid) => k = "Video"
            /\ (~img /\ ~aud /\ ~vid /\ doc) => k = "Document"
            /\ (~img /\ ~aud /\ ~vid /\ ~doc /\ loc) => k = "Location"
            /\ (~img /\ ~aud /\ ~vid /\ ~doc /\ ~loc) =>
                  k = IF calc.text # <<>> THEN "Text" ELSE "Other"

\* an image with a non-empty text and further parts was classified as Photo
C22_Witness ==
    /\ calc # None
    /\ calc.done
    /\ calc.fn = "classify_message"
    /\ calc.msg.image # None
    /\ calc.msg.audio # None
    /\ calc.text = Hi
    /\ calc.kind = "Photo"

(***************************************************************************)
(* SpecRoute: messages with every kind of payload arrive at an account     *)
(* started with or without an event sink, under policies that grant and    *)
(* deny them; the collaborators (download, speech-to-text, the location    *)
(* callback, the command dispatcher, the transport) answer either way.     *)
(***************************************************************************)
SlashNew == <<"/", "n", "e", "w">>

Berlin == <<Some("52.5"), Some("13.4")>>

\* the payloads: <<text, part name, part>>
RoutePayloads ==
    {<<Some(Hi), "none", None>>,
     <<Some(SlashNew), "none", None>>,
     <<Some(<<"/", "x">>), "none", None>>,
     <<Some(GeneratedCode), "none", None>>,
     <<None, "none", None>>,
     <<None, "image", Some(ImageMessage(Some(Hi)))>>,
     <<Some(SlashNew), "image", Some(ImageMessage(None))>>,
     <<None, "audio", Some(AudioMessage(Some(TRUE)))>>,
     <<None, "audio", Some(AudioMessage(None))>>,
     <<None, "video", Some(VideoMessage(Some(Hi), Some(<<"jpeg">>)))>>,
     <<None, "video", Some(VideoMessage(None, Some(<<>>)))>>,
     <<None, "document", Some(DocumentMessage(None, Some("a.pdf"), None))>>,
     <<None, "location", Some(LocationMessage(Berlin[1], Berlin[2], None))>>,
     <<None, "location", Some(LocationMessage(None, Berlin[2], Some(TRUE)))>>,
     <<None, "live_location", Some(LiveLocationMessage(Berlin[1], Berlin[2]))>>,
     <<Some(SlashNew), "location", Some(LocationMessage(Berlin[1], Berlin[2], None))>>}

RouteMessages ==
    {[InboundMessage(Alice, c, FALSE, MaxSends + 1, p[1]) EXCEPT
         !.image = IF p[2] = "image" THEN p[3] ELSE @,
         !.audio = IF p[2] = "audio" THEN p[3] ELSE @,
         !.video = IF p[2] = "video" THEN p[3] ELSE @,
         !.document = IF p[2] = "document" THEN p[3] ELSE @,
         !.location = IF p[2] = "location" THEN p[3] ELSE @,
         !.live_location = IF p[2] = "live_location" THEN p[3] ELSE @] :
        c \in {Alice, GroupChat}, p \in RoutePayloads}

\* open to all; the default (DM allowlist, empty, with OTP self-approval);
\* the same without self-approval; closed to all
RouteConfigs ==
    {WhatsAppAccountConfig("Open", "Open", <<>>, <<>>, TRUE, 300, None),
     DefaultConfig,
     [DefaultConfig EXCEPT !.otp_self_approval = FALSE, !.group_policy = "Allowlist"],
     WhatsAppAccountConfig("Disabled", "Disabled", <<>>, <<>>, TRUE, 300, None)}

\* the answers a message's parts can make the handler ask for
EnvsFor(m) ==
    {e \in Envs :
        /\ (m.image = None /\ m.audio = None) => e.download_ok
        /\ m.audio = None => (e.stt /\ e.transcribe_ok)
        /\ (m.location = None /\ m.live_location = None) => e.resolved}

CommandOutcomes(m) == IF is_command(m, message_text(m)) THEN BOOLEAN ELSE {TRUE}

RouteNext ==
    \/ \E a \in AccountIds, c \in RouteConfigs, log, sink \in BOOLEAN :
          StartAccount(a, c, log, sink, Ok)
    \/ \E a \in AccountIds, m \in RouteMessages, ok \in BOOLEAN :
          \E cmd_ok \in CommandOutcomes(m), env \in EnvsFor(m) :
              HandleMessage(1, a, m, Some(OwnPn), Some(OwnLid), ok, cmd_ok, env)
    \/ \E ok \in BOOLEAN : OtpVerify(1, ok)
    \/ \E ok \in BOOLEAN : OtpInitiate(1, GeneratedCode, ok)

SpecRoute == Init /\ [][RouteNext]_vars

\* the last step routed an allowed message to handle_location
LocationHandled ==
    /\ last.stage = "message"
    /\ ~last.dropped
    /\ last.access = Ok
    /\ last.kind = "Location"

\* the message's location is a live one
IsLive(msg) ==
    IF msg.location # None THEN unwrap(msg.location).is_live = Some(TRUE) ELSE TRUE

\* the coordinates of the message's location, absent ones read as 0
Coordinates(msg) ==
    LET loc == unwrap(IF msg.location # None THEN msg.location ELSE msg.live_location)
    IN  [lat |-> IF loc.degrees_latitude = None THEN "0" ELSE loc.degrees_latitude[1],
         lon |-> IF loc.degrees_longitude = None THEN "0" ELSE loc.degrees_longitude[1]]

\* what the claim says of a handled location
LocationOutcome(L) ==
    LET m == unwrap(L.msg)
        c == Coordinates(m)
    IN  /\ L.location_updates = <<c>>
        /\ L.resolved =>
              /\ Len(L.replies) = 1
              /\ L.replies[1].text = <<"Location updated.">> \o BOT_WATERMARK
              /\ L.dispatched = <<>>
        /\ (~L.resolved /\ IsLive(m)) =>
              /\ L.replies = <<>>
              /\ L.dispatched = <<>>
        /\ (~L.resolved /\ ~IsLive(m)) =>
              /\ L.replies = <<>>
              /\ Len(L.dispatched) = 1
              /\ L.dispatched[1].kind = "chat"
              /\ L.dispatched[1].text = <<"I'm sharing my location: ", c.lat, ", ", c.lon>>

\* C23, as written: for every allowed location message update_location is
\* tried first; when it resolves, one confirmation is sent and nothing is
\* forwarded; an unresolved live location sends and forwards nothing; an
\* unresolved static location is forwarded once as coordinate text.
C23_LocationAsWritten == LocationHandled => LocationOutcome(last)

\* C23: the same for an account that has an event sink; an account without
\* one makes no update_location call, sends nothing and forwards nothing,
\* also for an unresolved static location.
C23_LocationHandling ==
    LocationHandled =>
        IF state_ref[last.account].event_sink
        THEN LocationOutcome(last)
        ELSE /\ last.location_updates = <<>>
             /\ last.replies = <<>>
             /\ last.dispatched = <<>>

\* an unresolved static location was forwarded, by an account with a sink
C23_Witness ==
    /\ LocationHandled
    /\ state_ref[last.account].event_sink
    /\ ~last.resolved
    /\ ~IsLive(unwrap(last.msg))
    /\ Len(last.dispatched) = 1

\* the last step handled an allowed message whose text starts with '/'
CommandHandled ==
    /\ last.stage = "message"
    /\ ~last.dropped
    /\ last.access = Ok
    /\ message_text(unwrap(last.msg)) # <<>>
    /\ message_text(unwrap(last.msg))[1] = "/"

\* the replies a command can get: a known command's answer, or an error
CommandReplies(cmd) ==
    {t \o BOT_WATERMARK :
        t \in {<<"Error: ", "gateway not ready">>}
              \cup (IF cmd = <<"n", "e", "w">> THEN {<<"New session started.">>}
                    ELSE IF cmd = <<"c", "l", "e", "a", "r">> THEN {<<"Session cleared.">>}
                    ELSE {<<"Error: ", "unknown command: /">> \o cmd})}

DeniedHandled ==
    /\ last.stage = "message"
    /\ ~last.dropped
    /\ last.checked
    /\ last.access # Ok

\* nothing is dispatched or downloaded for the denied message, and the OTP
\* flow is entered only for a DM denied as NotOnAllowlist under
\* otp_self_approval
DeniedNotDispatched ==
    /\ last.dispatched = <<>>
    /\ last.downloads = <<>>
    /\ last.location_updates = <<>>
    /\ last.otp # "none" =>
          /\ last.access = "NotOnAllowlist"
          /\ ~unwrap(last.msg).is_group
          /\ state_ref[last.account].config.otp_self_approval

DeniedEvent ==
    ChannelEvent("InboundMessage", to_string(unwrap(last.msg).sender), FALSE, None, 0)

\* C29, as written: a denied message is not dispatched and nothing is
\* downloaded for it, and it is logged and announced by an InboundMessage
\* event with access_granted = false.
C29_DeniedAsWritten ==
    DeniedHandled =>
        /\ DeniedNotDispatched
        /\ last.logged = Some(FALSE)
        /\ last.events = <<DeniedEvent>>

\* C29: a denied message is not dispatched and nothing is downloaded for
\* it; an account with a message log logs it and an account with an event
\* sink announces it, each once and with access_granted = false; an account
\* without the one or the other writes no entry or emits no event.
C29_DeniedNeverDispatched ==
    DeniedHandled =>
        /\ DeniedNotDispatched
        /\ last.logged = IF state_ref[last.account].message_log THEN Some(FALSE) ELSE None
        /\ last.events = IF state_ref[last.account].event_sink THEN <<DeniedEvent>> ELSE <<>>

\* a denied image DM entered the OTP flow, logged and announced
C29_Witness ==
    /\ DeniedHandled
    /\ unwrap(last.msg).image # None
    /\ last.otp = "initiate"
    /\ last.logged = Some(FALSE)
    /\ last.events = <<DeniedEvent>>
    /\ last.downloads = <<>>

(***************************************************************************)
(* SpecProbe: the health of two accounts is probed while they are started  *)
(* and stopped and time passes in steps of half the cache's TTL.           *)
(***************************************************************************)
ProbeNext ==
    \/ \E a \in LifeAccounts : StartAccount(a, DefaultConfig, TRUE, TRUE, Ok)
    \/ \E a \in LifeAccounts : StopAccount(a)
    \/ \E a \in LifeAccounts : Probe(a)
    \/ (now < MaxProbeClock /\ Tick(15))

SpecProbe == LifeInit /\ [][ProbeNext]_vars

\* the snapshot of a, read off the registry
RegistrySnapshot(a) ==
    IF a \in DOMAIN accounts
    THEN [connected |-> accounts[a].connected, account_id |-> a,
          details |-> IF accounts[a].connected THEN "WhatsApp: connected"
                      ELSE IF accounts[a].latest_qr # None THEN "waiting for QR scan"
                      ELSE "disconnected"]
    ELSE [connected |-> FALSE, account_id |-> a, details |-> "account not started"]

\* a's cache entry was stored less than 30 seconds ago
StoredRecently(a) == a \in DOMAIN probe_cache /\ now - probe_cache[a].ts < 30

\* the step is a call of probe(a): the only step that leaves the call
\* record saying "probe" without the clock or the registry moving
ProbeStep(a) ==
    /\ life'.op = "probe"
    /\ life'.account = a
    /\ now' = now
    /\ accounts' = accounts

\* a probe of a serves a's entry if it is recent, recomputes and replaces
\* it otherwise, and leaves every other entry as it was
ProbeCached(a) ==
    /\ IF StoredRecently(a)
       THEN /\ life'.snap = probe_cache[a].snap
            /\ probe_cache' = probe_cache
       ELSE /\ life'.snap = RegistrySnapshot(a)
            /\ a \in DOMAIN probe_cache'
            /\ probe_cache'[a] = [snap |-> RegistrySnapshot(a), ts |-> now]
    /\ DOMAIN probe_cache' \ {a} = DOMAIN probe_cache \ {a}
    /\ \A b \in DOMAIN probe_cache \ {a} : probe_cache'[b] = probe_cache[b]

\* C25, as written: besides the caching rule, a probe of an id that is not
\* registered returns connected = false and "account not started".
C25_ProbeAsWritten ==
    [][\A a \in LifeAccounts :
          ProbeStep(a) =>
              /\ ProbeCached(a)
              /\ a \notin DOMAIN accounts =>
                    /\ life'.result = Ok
                    /\ ~life'.snap.connected
                    /\ life'.snap.details = "account not started"]_vars

\* C25: probe(A) returns A's cached snapshot only if it was stored less
\* than 30 seconds ago, otherwise it recomputes the snapshot from the
\* registry and replaces A's entry; it never touches another account's
\* entry; for an id that is not registered the recomputed snapshot has
\* connected = false and "account not started", and a recent entry stored
\* while the id was registered is still served after the account stopped.
C25_ProbeCaching ==
    [][\A a \in LifeAccounts :
          ProbeStep(a) =>
              /\ ProbeCached(a)
              /\ (a \notin DOMAIN accounts /\ ~StoredRecently(a)) =>
                    /\ life'.result = Ok
                    /\ ~life'.snap.connected
                    /\ life'.snap.details = "account not started"]_vars

\* an entry of exactly 30 seconds was replaced while the other account's
\* older entry stayed
C25_Witness ==
    /\ life.op = "probe"
    /\ ~life.cached
    /\ now >= 30
    /\ DOMAIN probe_cache = LifeAccounts
    /\ probe_cache[life.account].ts = now
    /\ \E b \in LifeAccounts \ {life.account} : probe_cache[b].ts = now - 30

(***************************************************************************)
(* SpecPeers: two peers that are not on the allowlist write to an account  *)
(* with OTP self-approval; the messages of either may be handled by        *)
(* concurrent tasks, and time passes.                                      *)
(***************************************************************************)
Bob == Jid("15557654321", "s.whatsapp.net")

Peers == {Alice, Bob}

PeersMessages ==
    {InboundMessage(p, p, FALSE, MaxOtpSends + 1, Some(t)) :
        p \in Peers, t \in {GeneratedCode, Hi}}

\* the two tasks that handle the peers' messages
PeerHandlers == {h \in Handlers : h <= 2}

PeersNext ==
    \/ \E a \in AccountIds : StartAccount(a, OtpConfig, TRUE, TRUE, Ok)
    \/ \E h \in PeerHandlers, a \in AccountIds, m \in PeersMessages, ok \in BOOLEAN :
          HandleMessage(h, a, m, Some(OwnPn), Some(OwnLid), ok, TRUE, QuietEnv)
    \/ \E h \in PeerHandlers, ok \in {b \in BOOLEAN : SendsUntilCap(b)} : OtpVerify(h, ok)
    \/ \E h \in PeerHandlers, ok \in {b \in BOOLEAN : SendsUntilCap(b)} :
          OtpInitiate(h, GeneratedCode, ok)
    \/ Tick(150)

SpecPeers == OtpInit /\ [][PeersNext]_vars

\* the manager holds, for a peer, nothing but the challenge of the peer's
\* last Created result, and only while no verify has consumed it
OneChallengePerPeer ==
    \A a \in DOMAIN accounts :
        LET held == accounts[a].otp.challenges
        IN  /\ DOMAIN held \subseteq DOMAIN otp_calls
            /\ \A p \in DOMAIN held :
                  /\ PendingBefore(otp_calls[p], Len(otp_calls[p]) + 1)
                  /\ held[p].code = otp_calls[p][1].code
                  /\ held[p].expires_at = otp_calls[p][1].at + OTP_EXPIRY_SECS

OtpChallengeEvents(events) == {i \in DOMAIN events : events[i].type = "OtpChallenge"}

\* a task's initiate gives Created, and the handler emits an OtpChallenge
\* event, only for a peer whose challenge was consumed or never made
CreatedOnlyAfterConsumption ==
    \A h \in Handlers :
        InitiateReturns(h) =>
            /\ last'.otp = "Created" => ~ChallengeLive(PeerOf(h), now)
            /\ Cardinality(OtpChallengeEvents(last'.events)) =
                  IF last'.otp = "Created" /\ state_ref[pc[h].account].event_sink
                  THEN 1 ELSE 0
            /\ \A p \in DOMAIN otp_calls \ {PeerOf(h)} : otp_calls'[p] = otp_calls[p]

\* C26: the OTP manager holds at most one pending challenge per peer, under
\* any interleaving of the messages of any peers handled by concurrent
\* tasks: between two consumptions of a peer's challenge (approval, lockout,
\* expiry) at most one Created result and at most one OtpChallenge event
\* are produced for that peer.
C26_OneChallengePerPeer == []OneChallengePerPeer /\ [][CreatedOnlyAfterConsumption]_vars

\* both peers hold a challenge, and a second task of one of them was
\* answered AlreadyPending
C26_Witness ==
    /\ last.stage = "otp_init"
    /\ last.otp = "AlreadyPending"
    /\ \E a \in DOMAIN accounts :
          DOMAIN accounts[a].otp.challenges = {to_string(q) : q \in Peers}

(***************************************************************************)
(* SpecQuiet: a peer with a pending challenge sends chatter, near-codes    *)
(* and codes.                                                              *)
(***************************************************************************)
\* texts that are not a code: chatter, nothing, five and seven digits, six
\* characters with a letter, and two texts of six bytes that hold fewer
\* than six characters
NearCodes ==
    {Hi, <<>>,
     <<"1", "2", "3", "4", "5">>,
     <<"1", "2", "3", "4", "5", "6", "7">>,
     <<"1", "2", "3", "4", "5", "a">>,
     <<"U+00E9", "1", "2", "3", "4">>,
     <<"1", "2", "3", ZWJ>>}

QuietMessages ==
    {InboundMessage(Alice, Alice, FALSE, MaxOtpSends + 1, Some(t)) :
        t \in NearCodes \cup {<<" ">> \o GeneratedCode \o <<" ">>,
                              <<"6", "5", "4", "3", "2", "1">>}}

QuietNext ==
    \/ \E a \in AccountIds : StartAccount(a, OtpConfig, TRUE, TRUE, Ok)
    \/ \E h \in PeerHandlers, a \in AccountIds, m \in QuietMessages, ok \in BOOLEAN :
          HandleMessage(h, a, m, Some(OwnPn), Some(OwnLid), ok, TRUE, QuietEnv)
    \/ \E h \in PeerHandlers, ok \in {b \in BOOLEAN : SendsUntilCap(b)} : OtpVerify(h, ok)
    \/ \E h \in PeerHandlers, ok \in {b \in BOOLEAN : SendsUntilCap(b)} :
          OtpInitiate(h, GeneratedCode, ok)
    \/ Tick(150)

SpecQuiet == OtpInit /\ [][QuietNext]_vars

\* the text, without the blanks around it, is six ASCII digits
SixAsciiDigits(text) ==
    \E i, j \in 0..Len(text) :
        /\ i + 6 + j = Len(text)
        /\ \A k \in 1..Len(text) :
              IF k <= i \/ k > i + 6 THEN text[k] = " "
              ELSE text[k] \in {"0", "1", "2", "3", "4", "5", "6", "7", "8", "9"}

\* the step is handle_message taking up a message
MessageStep ==
    /\ last'.stage = "message"
    /\ now' = now
    /\ DOMAIN accounts' = DOMAIN accounts

\* a DM of a denied peer that has a pending challenge, carrying no code,
\* changes nothing and is not answered
NonCodeIgnored ==
    MessageStep =>
        LET m == unwrap(last'.msg)
            a == last'.account
            p == to_string(m.sender)
        IN  (/\ last'.access = "NotOnAllowlist"
             /\ ~m.is_group
             /\ a \in DOMAIN accounts
             /\ p \in DOMAIN accounts[a].otp.challenges
             /\ ~SixAsciiDigits(message_text(m))) =>
                /\ accounts' = accounts
                /\ otp_calls' = otp_calls
                /\ pc' = pc
                /\ last'.replies = <<>>
                /\ next_id' = next_id

\* every code verify was called with is six ASCII digits
VerifyOnlyCodes ==
    \A p \in DOMAIN otp_calls :
        \A i \in DOMAIN otp_calls[p] :
            otp_calls[p][i].call = "verify" => SixAsciiDigits(otp_calls[p][i].code)

\* C27: while a peer has a pending challenge, a DM of that peer whose
\* trimmed text is not exactly six ASCII digits is ignored: verify is not
\* called, the challenge's attempt counter, code and expiry stay as they
\* are and nothing is sent to the peer; verify is only ever called with six
\* digits.
C27_NonCodeIgnored == []VerifyOnlyCodes /\ [][NonCodeIgnored]_vars

\* a text of six bytes that is not a code was ignored after a wrong code had
\* used up one attempt
C27_Witness ==
    /\ last.stage = "message"
    /\ last.otp = "ignored"
    /\ message_text(unwrap(last.msg)) = <<"1", "2", "3", ZWJ>>
    /\ \E a \in DOMAIN accounts :
          /\ to_string(Alice) \in DOMAIN accounts[a].otp.challenges
          /\ accounts[a].otp.challenges[to_string(Alice)].attempts = 1

(***************************************************************************)
(* outbound.rs: the outbound sender, next to the handler's replies.        *)
(* SpecWire: an account is started, messages of the kinds that are         *)
(* answered arrive, and the gateway calls send_text, send_media and        *)
(* send_stream for known and unknown accounts.  calc holds the last        *)
(* outbound call: what it handed to the transport client and its result.   *)
(***************************************************************************)
\* StreamEvent
Delta(text) == [type |-> "Delta", text |-> text]

Done == [type |-> "Done", text |-> <<>>]

Error(err) == [type |-> "Error", text |-> err]

\* what a call of the outbound sender did
Sent(handed, result, recorded) ==
    [handed |-> handed, result |-> result, recorded |-> recorded]

\* A plausible slip: the text goes out as it came.
send_text_Unmarked(accs, a, jid_ok, text, ok) ==
    IF a \notin DOMAIN accs THEN Sent(<<>>, "unknown_account", FALSE)
    ELSE IF ~jid_ok THEN Sent(<<>>, "invalid_input", FALSE)
    ELSE Sent(<<TextMessage(text)>>, IF ok THEN Ok ELSE "unavailable", ok)

\* send_text: the client of a registered account, the parsed JID, then the
\* text with the marker pushed onto it as the conversation of a new message;
\* the id is recorded when the transport took the message
send_text(accs, a, jid_ok, text, ok) ==
    IF a \notin DOMAIN accs THEN Sent(<<>>, "unknown_account", FALSE)
    ELSE IF ~jid_ok THEN Sent(<<>>, "invalid_input", FALSE)
    ELSE Sent(<<TextMessage(text \o BOT_WATERMARK)>>,
              IF ok THEN Ok ELSE "unavailable", ok)

\* the loop of send_stream: deltas are appended until Done, an Error (whose
\* text is taken when nothing was collected) or the end of the stream
RECURSIVE collect_stream(_, _)
collect_stream(stream, text) ==
    IF stream = <<>> THEN text
    ELSE LET event == Head(stream)
         IN  IF event.type = "Delta"
             THEN collect_stream(Tail(stream), text \o event.text)
             ELSE IF event.type = "Done" THEN text
             ELSE IF text = <<>> THEN event.text ELSE text

\* the outbound call's effect on the registry and on calc; the transport
\* takes a message only while the run has ids left to give
Outbound(fn, a, sent) ==
    /\ calc' = [fn |-> fn, handed |-> sent.handed, result |-> sent.result]
    /\ UNCHANGED thr
    /\ accounts' = IF sent.recorded
                   THEN [accounts EXCEPT ![a].recent_sent_ids = record_sent_id(@, next_id)]
                   ELSE accounts
    /\ next_id' = IF sent.recorded THEN next_id + 1 ELSE next_id
    /\ UNCHANGED <<state_ref, now, send_cap, pc, last, otp_calls, accessVars,
                   storeVars, lifeVars>>

\* ChannelOutbound::send_text
OutboundSendText(a, jid_ok, text, ok) ==
    /\ ok => next_id <= send_cap
    /\ Outbound("send_text", a, send_text(accounts, a, jid_ok, text, ok))

\* ChannelOutbound::send_media: the payload's text, when it has one
OutboundSendMedia(a, jid_ok, payload_text, ok) ==
    /\ ok => next_id <= send_cap
    /\ Outbound("send_media", a,
                IF payload_text # <<>>
                THEN send_text(accounts, a, jid_ok, payload_text, ok)
                ELSE Sent(<<>>, Ok, FALSE))

\* ChannelStreamOutbound::send_stream: the collected text, when there is one
OutboundSendStream(a, jid_ok, stream, ok) ==
    /\ ok => next_id <= send_cap
    /\ LET text == collect_stream(stream, <<>>)
       IN  Outbound("send_stream", a,
                    IF text = <<>>
                    THEN Sent(<<>>, Ok, FALSE)
                    ELSE send_text(accounts, a, jid_ok, text, ok))

WireTexts == {<<>>, Hi, Hi \o BOT_WATERMARK \o <<"!">>}

WireStreams ==
    {<<>>, <<Done>>, <<Delta(<<>>), Done>>, <<Delta(Hi), Delta(<<"!">>), Done>>,
     <<Delta(Hi)>>, <<Done, Delta(Hi)>>, <<Error(<<"boom">>)>>, <<Error(<<>>)>>,
     <<Delta(Hi), Error(<<"boom">>), Delta(Hi)>>}

WireAccounts == AccountIds \cup {"wa9"}

\* inbound messages that are answered: a command, a code, an unsupported
\* message, a voice note, a location
WireMessages ==
    {m \in RouteMessages :
        /\ m.chat = Alice
        /\ m.image = None /\ m.video = None /\ m.document = None
        /\ m.live_location = None
        /\ (m.location # None => m.conversation = None)
        /\ m.conversation \in {None, Some(SlashNew), Some(GeneratedCode)}}

WireConfigs == {c \in RouteConfigs : c.dm_policy # "Disabled"}

WireNext ==
    \/ \E a \in AccountIds, c \in WireConfigs, sink \in BOOLEAN :
          StartAccount(a, c, TRUE, sink, Ok)
    \/ \E a \in AccountIds, m \in WireMessages, ok \in BOOLEAN :
          \E cmd_ok \in CommandOutcomes(m), env \in EnvsFor(m) :
              HandleMessage(1, a, m, Some(OwnPn), Some(OwnLid), ok, cmd_ok, env)
    \/ \E ok \in BOOLEAN : OtpVerify(1, ok)
    \/ \E ok \in BOOLEAN : OtpInitiate(1, GeneratedCode, ok)
    \/ \E a \in WireAccounts, jid_ok, ok \in BOOLEAN, text \in WireTexts :
          OutboundSendText(a, jid_ok, text, ok)
    \/ \E a \in WireAccounts, jid_ok, ok \in BOOLEAN, text \in WireTexts :
          OutboundSendMedia(a, jid_ok, text, ok)
    \/ \E a \in WireAccounts, jid_ok, ok \in BOOLEAN, stream \in WireStreams :
          OutboundSendStream(a, jid_ok, stream, ok)

SpecWire == Init /\ [][WireNext]_vars

\* every text field present in the message ends with the marker
TextWatermarked(msg) ==
    /\ is_some(msg.conversation) \/ is_some(msg.extended_text)
    /\ is_some(msg.conversation) => EndsWithMarker(unwrap(msg.conversation))
    /\ is_some(msg.extended_text) => EndsWithMarker(unwrap(msg.extended_text))

\* C28: every text message handed to the transport client ends with the
\* bot watermark: the replies the inbound handler sends through
\* AccountState::send_message, and the texts the outbound sender sends
\* through send_text, send_media and send_stream.
C28_EveryTextWatermarked ==
    /\ \A i \in DOMAIN last.replies : EndsWithMarker(last.replies[i].text)
    /\ calc # None => \A i \in DOMAIN calc.handed : TextWatermarked(calc.handed[i])

\* the handler has answered a message, and the text collected from a stream
\* was sent as one message
C28_Witness ==
    /\ Len(last.replies) = 1
    /\ calc # None
    /\ calc.fn = "send_stream"
    /\ calc.result = Ok
    /\ Len(calc.handed) = 1
    /\ calc.handed[1].conversation = Some(Hi \o BOT_WATERMARK)

(***************************************************************************)
(* connection.rs: the event task spawned by start_connection.              *)
(* SpecTask: an account is started and stopped; each task's bot.run()      *)
(* returns a handle or an error, or does not return; a started run loop    *)
(* ends on its own or goes on.  A task whose select! has a ready branch is *)
(* woken and polled: that step is weakly fair.  Nothing obliges bot.run()  *)
(* to return or the run loop to end.                                       *)
(***************************************************************************)
\* A plausible slip: once bot.run() has returned, only the handle is awaited.
ready_branches_HandleOnly(task, cancelled) ==
    IF task.stage = "spawned"
    THEN IF cancelled THEN {"WhatsApp account cancelled before start"} ELSE {}
    ELSE IF task.stage = "running"
    THEN IF task.run = "ended" THEN {"WhatsApp bot task completed"} ELSE {}
    ELSE {}

\* the branches of the task's select! that are ready without bot.run()
\* returning: the outer one on the token, the inner ones on the handle and on
\* the token; each is named by the line it logs
ready_branches(task, cancelled) ==
    IF task.stage = "spawned"
    THEN IF cancelled THEN {"WhatsApp account cancelled before start"} ELSE {}
    ELSE IF task.stage = "running"
    THEN (IF task.run = "ended" THEN {"WhatsApp bot task completed"} ELSE {})
         \cup (IF cancelled THEN {"WhatsApp account cancelled"} ELSE {})
    ELSE {}

\* the task holding token t, if one was spawned
TaskOf(t) == {task \in tasks : task.cancel = t}

\* one task replaced by its next state
Moved(task, next) == (tasks \ {task}) \cup {next}

\* bot.run() returns in the outer select!: Ok(handle) leads to the inner
\* select!, Err(e) is logged and the task ends
BotRun(t, outcome) ==
    /\ \E task \in TaskOf(t) :
          /\ task.stage = "spawned"
          /\ tasks' = Moved(task,
                 IF outcome = Ok
                 THEN [task EXCEPT !.stage = "running", !.run = "started"]
                 ELSE [task EXCEPT !.stage = "exited", !.run = "failed",
                                   !.logged = "WhatsApp bot failed to start"])
    /\ UNCHANGED <<accounts, state_ref, now, next_id, send_cap, pc, last, otp_calls,
                   tokens, probe_cache, life, accessVars, storeVars, benchVars>>

\* the run loop behind the handle ends on its own
RunLoopEnds(t) ==
    /\ \E task \in TaskOf(t) :
          /\ task.stage = "running"
          /\ task.run = "started"
          /\ tasks' = Moved(task, [task EXCEPT !.run = "ended"])
    /\ UNCHANGED <<accounts, state_ref, now, next_id, send_cap, pc, last, otp_calls,
                   tokens, probe_cache, life, accessVars, storeVars, benchVars>>

\* the task is polled with a ready branch of its select!, logs and ends
TaskExit(t) ==
    /\ \E task \in TaskOf(t) :
          \E branch \in ready_branches(task, tokens[task.cancel]) :
              tasks' = Moved(task, [task EXCEPT !.stage = "exited", !.logged = branch])
    /\ UNCHANGED <<accounts, state_ref, now, next_id, send_cap, pc, last, otp_calls,
                   tokens, probe_cache, life, accessVars, storeVars, benchVars>>

TaskTokens == 1..MaxStarts

TaskNext ==
    \/ \E a \in AccountIds : StartAccount(a, DefaultConfig, TRUE, TRUE, Ok)
    \/ \E a \in AccountIds : StopAccount(a)
    \/ \E t \in TaskTokens, outcome \in {Ok, "Whatsapp"} : BotRun(t, outcome)
    \/ \E t \in TaskTokens : RunLoopEnds(t)
    \/ \E t \in TaskTokens : TaskExit(t)

SpecTask ==
    /\ LifeInit
    /\ [][TaskNext]_vars
    /\ \A t \in TaskTokens : WF_vars(TaskExit(t))

\* token t of a spawned task has been signalled
TaskCancelled(t) == t \in DOMAIN tokens /\ tokens[t] /\ TaskOf(t) # {}

TaskExited(t) == \A task \in TaskOf(t) : task.stage = "exited"

\* the run loop behind task t's handle has ended
TaskRunEnded(t) == \E task \in TaskOf(t) : task.run = "ended"

\* a task whose bot.run() failed has ended
FailedStartExits ==
    \A task \in tasks : task.run = "failed" => task.stage = "exited"

\* C30: under fair scheduling, after stop_account has signalled the token of
\* a registered account, the account's event task eventually exits, whether
\* the signal comes before bot.run() has returned or while the run loop is
\* running; the task also exits when the run loop ends on its own and when
\* bot.run() fails.  No task runs forever once its token is cancelled.
C30_CancelledTaskExits ==
    /\ \A t \in TaskTokens : TaskCancelled(t) ~> TaskExited(t)
    /\ \A t \in TaskTokens : TaskRunEnded(t) ~> TaskExited(t)
    /\ []FailedStartExits

\* one task was cancelled before its bot.run() returned and one while its
\* run loop was running, and both have ended
C30_Witness ==
    /\ \E task \in tasks :
          /\ task.stage = "exited"
          /\ task.logged = "WhatsApp account cancelled before start"
    /\ \E task \in tasks :
          /\ task.stage = "exited"
          /\ task.logged = "WhatsApp account cancelled"
          /\ tokens[task.cancel]

(***************************************************************************)
(* connection.rs, plugin.rs: events that reach the callback after the      *)
(* account was stopped.  SpecStopped: an account open to all is started    *)
(* and stopped, its task runs and ends as in SpecTask, and the run loop,   *)
(* once started, calls the callback with connection events and messages.   *)
(***************************************************************************)
OpenConfig == WhatsAppAccountConfig("Open", "Open", <<>>, <<>>, TRUE, 300, None)

StoppedMessages == {InboundMessage(Alice, Alice, FALSE, MaxSends + 1, Some(Hi))}

\* the run loop of a's bot was started by bot.run(); the task's inner
\* select! gives up the handle when it ends, which does not end the loop
Delivers(a) ==
    /\ a \in DOMAIN state_ref
    /\ \E task \in TaskOf(state_ref[a].cancel) : task.run = "started"

StoppedNext ==
    \/ \E a \in AccountIds : StartAccount(a, OpenConfig, TRUE, TRUE, Ok)
    \/ \E a \in AccountIds : StopAccount(a)
    \/ \E t \in TaskTokens : BotRun(t, Ok)
    \/ \E t \in TaskTokens : TaskExit(t)
    \/ \E a \in AccountIds, ev \in ConnectionEvents : Delivers(a) /\ OnEvent(a, ev)
    \/ \E a \in AccountIds, m \in StoppedMessages, ok \in BOOLEAN :
          /\ Delivers(a)
          /\ HandleMessage(1, a, m, Some(OwnPn), Some(OwnLid), ok, TRUE, QuietEnv)

SpecStopped == Init /\ [][StoppedNext]_vars

\* stop_account(a) has returned and a's event task has seen the cancellation
StoppedAndObserved(a) ==
    /\ a \in DOMAIN state_ref
    /\ a \notin DOMAIN accounts
    /\ \E task \in TaskOf(state_ref[a].cancel) :
          /\ task.stage = "exited"
          /\ task.logged \in {"WhatsApp account cancelled",
                              "WhatsApp account cancelled before start"}

\* the step handled no event of a: the flag and the code are as they were,
\* nothing was emitted, and no message was logged, answered or dispatched
NothingProcessed(a) ==
    /\ state_ref'[a].connected = state_ref[a].connected
    /\ state_ref'[a].latest_qr = state_ref[a].latest_qr
    /\ ~(life'.op = "event" /\ life'.account = a /\ life' # life)
    /\ last' = last

\* C31: once stop_account(A) has returned and the event task of A has
\* observed the cancellation, no transport event delivered later for A is
\* processed: no connectivity flag or pairing code of A changes, no outward
\* event is emitted for A, and no message of A is logged, answered or
\* dispatched to the chat backend.
C31_NoEventAfterStop ==
    [][\A a \in AccountIds :
          (StoppedAndObserved(a) /\ a \in DOMAIN state_ref') => NothingProcessed(a)]_vars

(***************************************************************************)
(* handlers.rs: what handle_event leaves alone.  SpecFrame: an account is  *)
(* started with or without an event sink and stopped, and its bot delivers *)
(* the connection events and events of kinds handle_event has no arm for.  *)
(***************************************************************************)
FrameEvents ==
    ConnectionEvents \cup {[type |-> "Receipt"], [type |-> "StreamError"]}

HandledTypes ==
    {"PairingQrCode", "Connected", "PairError", "Disconnected", "LoggedOut", "Message"}

FrameNext ==
    \/ \E a \in AccountIds, sink \in BOOLEAN :
           StartAccount(a, DefaultConfig, TRUE, sink, Ok)
    \/ \E a \in AccountIds : StopAccount(a)
    \/ \E a \in AccountIds, ev \in FrameEvents : HandleEvent(a, ev)

SpecFrame == LifeInit /\ [][FrameNext]_vars

\* the step handled an event
EventStep == life'.op = "event"

\* the step changed nothing of any account but, perhaps, the flag of a
OnlyFlag(a) ==
    /\ accounts' = accounts
    /\ state_ref' = [state_ref EXCEPT ![a].connected = state_ref'[a].connected]

\* the step changed no account state
NoAccountState == accounts' = accounts /\ state_ref' = state_ref

\* what the claim says of the three kinds of events, with the events a
\* PairError is to emit given
FrameOf(pair_error_emits) ==
    LET a == life'.account
        ev == life'.event
    IN  /\ ev.type = "PairError" =>
              /\ NoAccountState
              /\ life'.emitted = pair_error_emits
        /\ ev.type \notin HandledTypes =>
              /\ NoAccountState
              /\ life'.emitted = {}
        /\ ev.type = "Disconnected" =>
              /\ OnlyFlag(a)
              /\ ~state_ref'[a].connected
              /\ life'.emitted = {}

\* C32 as written: handling PairError leaves the connectivity flag and the
\* pairing code unchanged and emits exactly one PairingFailed event; handling
\* an event other than PairingQrCode, Connected, PairError, Disconnected,
\* LoggedOut and Message changes no account state and emits nothing;
\* Disconnected changes only the connectivity flag and emits nothing.
C32_FrameAsWritten ==
    [][EventStep =>
          FrameOf({PairingEvent("PairingFailed", life'.account, "PairError")})]_vars

\* C32, amended: the PairingFailed event is emitted when the account has an
\* event sink, and nothing is emitted when it has none; the rest as written.
C32_EventFrame ==
    [][EventStep =>
          FrameOf(IF state_ref[life'.account].event_sink
                  THEN {PairingEvent("PairingFailed", life'.account, "PairError")}
                  ELSE {})]_vars

\* a PairError was handled for a connected account with an event sink: the
\* flag is still set and one event was emitted
C32_Witness ==
    /\ life.op = "event"
    /\ life.event.type = "PairError"
    /\ state_ref[life.account].connected
    /\ state_ref[life.account].event_sink
    /\ Cardinality(life.emitted) = 1

(***************************************************************************)
(* The locks of the crate: the registry RwLock, the OTP and sent-id        *)
(* mutexes and the pairing-code RwLock of each AccountState, the probe     *)
(* cache RwLock.  An operation is the sequence of lock acquisitions, lock  *)
(* releases and await points of one path through its code; a guard is      *)
(* released where its scope ends.  "reg" is the AccountState in the        *)
(* registry, "ref" the one the event callback holds.                       *)
(***************************************************************************)
Acq(lock, mode) == [do |-> "acquire", on |-> lock, mode |-> mode]

Rel(lock) == [do |-> "release", on |-> lock, mode |-> ""]

\* an .await: the task may be suspended here
Await(what) == <<[do |-> "await", on |-> what, mode |-> ""]>>

\* a block that takes the lock and drops the guard at its end
WithLock(lock, mode, inner) == <<Acq(lock, mode)>> \o inner \o <<Rel(lock)>>

\* accounts.read() / accounts.write() around a block
WithRegistry(mode, inner) == WithLock("registry", mode, inner)

\* AccountState::record_sent_id, AccountState::was_sent_by_us
sent_ids_steps(state) == WithLock("sent_ids." \o state, "x", <<>>)

\* AccountState::send_message: the transport send, then the id is recorded
\* (or the error returned)
send_message_steps ==
    {Await("client.send_message") \o sent_ids_steps("ref"),
     Await("client.send_message")}

\* a block of handle_otp_flow: the registry is read and, when the account
\* is in it, its OTP state locked inside the read guard
otp_block_steps(found) ==
    WithRegistry("r", IF found THEN WithLock("otp.reg", "x", <<>>) ELSE <<>>)

\* A plausible slip: the verify block's guards live until the reply is sent.
handle_otp_flow_steps_GuardKept ==
    {otp_block_steps(TRUE) \o <<Acq("registry", "r"), Acq("otp.reg", "x")>>
        \o Await("client.send_message") \o <<Rel("otp.reg"), Rel("registry")>>}

\* handle_otp_flow: the has_pending block; then a return (a non-code message
\* while pending), or the verify or initiate block, which returns when the
\* account is gone and is otherwise followed by a reply and, for some
\* results, an event
handle_otp_flow_steps ==
    {otp_block_steps(TRUE),
     otp_block_steps(TRUE) \o otp_block_steps(FALSE),
     otp_block_steps(FALSE) \o otp_block_steps(FALSE)}
    \cup {otp_block_steps(was) \o otp_block_steps(TRUE) \o send \o emit :
            was \in BOOLEAN, send \in send_message_steps,
            emit \in {<<>>, Await("sink.emit")}}

\* handle_message: the owner's ids, the echo test, the log and the event,
\* then the OTP flow, a reply, or a download and a dispatch
handle_message_steps ==
    LET ids == Await("client.get_pn") \o Await("client.get_lid")
        echo == {<<>>, sent_ids_steps("ref")}
        seen == Await("log.log") \o Await("sink.emit")
    IN  {ids \o e : e \in echo}
        \cup {ids \o e \o seen \o rest :
                e \in echo,
                rest \in send_message_steps
                         \cup {Await("handle_otp_flow"),
                               Await("sink.dispatch_to_chat"),
                               Await("client.download") \o Await("sink.dispatch_to_chat"),
                               Await("sink.dispatch_command")}}

\* handle_event for PairingQrCode and Connected: the code is written under
\* its lock, which is dropped before anything is awaited
handle_event_steps ==
    {WithLock("latest_qr.ref", "w", <<>>) \o Await("sink.emit"),
     WithLock("latest_qr.ref", "w", <<>>) \o Await("client.get_push_name")
        \o Await("sink.emit"),
     Await("sink.emit"),
     <<>>}

\* the spawned event task
event_task_steps ==
    {Await("bot.run"), Await("cancel.cancelled"),
     Await("bot.run") \o Await("cancel.cancelled")}

\* WhatsAppOutbound::send_text: get_client, the send, record_sent_id, which
\* locks the registered state's buffer inside the registry read guard;
\* send_typing: get_client and the chat state
outbound_steps ==
    {WithRegistry("r", <<>>),
     WithRegistry("r", <<>>) \o Await("client.send_message"),
     WithRegistry("r", <<>>) \o Await("client.send_message")
        \o WithRegistry("r", sent_ids_steps("reg")),
     WithRegistry("r", <<>>) \o Await("client.send_message") \o WithRegistry("r", <<>>),
     WithRegistry("r", <<>>) \o Await("chatstate.send")}

\* WhatsAppPlugin::pending_otp_challenges
pending_otp_challenges_steps == {otp_block_steps(TRUE), otp_block_steps(FALSE)}

\* WhatsAppPlugin::latest_qr, has_account, account_ids, account_config
read_registry_steps ==
    {WithRegistry("r", WithLock("latest_qr.reg", "r", <<>>)), WithRegistry("r", <<>>)}

\* ChannelStatus::probe: the cache, and on a miss the registry (with the
\* pairing code of a state that is not connected) and the cache again
probe_steps ==
    {WithLock("probe_cache", "r", <<>>)}
    \cup {WithLock("probe_cache", "r", <<>>) \o WithRegistry("r", inner)
             \o WithLock("probe_cache", "w", <<>>) :
            inner \in {<<>>, WithLock("latest_qr.reg", "r", <<>>)}}

\* start_account: the bot is built, then the state is inserted
start_account_steps ==
    {<<>>, Await("Bot::build"), Await("Bot::build") \o WithRegistry("w", <<>>)}

\* stop_account: the token is read, then cancelled and the entry removed
stop_account_steps ==
    {WithRegistry("r", <<>>), WithRegistry("r", <<>>) \o WithRegistry("w", <<>>)}

\* update_account_config
update_account_config_steps == {WithRegistry("w", <<>>)}

Operations ==
    [handle_message |-> handle_message_steps,
     handle_otp_flow |-> handle_otp_flow_steps,
     handle_event |-> handle_event_steps,
     event_task |-> event_task_steps,
     outbound |-> outbound_steps,
     pending_otp_challenges |-> pending_otp_challenges_steps,
     read_registry |-> read_registry_steps,
     probe |-> probe_steps,
     start_account |-> start_account_steps,
     stop_account |-> stop_account_steps,
     update_account_config |-> update_account_config_steps]

LockTasks == {"t1", "t2"}

Outside == [op |-> "", path |-> <<>>, at |-> 1, held |-> <<>>]

\* the instruction task t is at, if it is inside an operation
Inside(t) == thr[t].at <= Len(thr[t].path)

Here(t) == thr[t].path[thr[t].at]

\* the guards other tasks hold on the lock
Others(t, lock) ==
    {g \in UNION {{thr[u].held[i] : i \in DOMAIN thr[u].held} : u \in LockTasks \ {t}} :
        g.on = lock}

\* std::sync::RwLock and Mutex: a reader waits for a writer, a writer and a
\* mutex for everyone
Grantable(t, lock, mode) ==
    IF mode = "r" THEN \A g \in Others(t, lock) : g.mode = "r"
    ELSE Others(t, lock) = {}

LockRest == <<accessVars, runtimeVars, storeVars, calc>>

\* a task enters an operation on one of its paths
Enter(t, op, path) ==
    /\ ~Inside(t)
    /\ path # <<>>
    /\ thr' = [thr EXCEPT ![t] = [op |-> op, path |-> path, at |-> 1, held |-> <<>>]]
    /\ UNCHANGED LockRest

\* .read(), .write(), .lock(): taken when the lock can be granted
Acquire(t) ==
    /\ Inside(t)
    /\ Here(t).do = "acquire"
    /\ Grantable(t, Here(t).on, Here(t).mode)
    /\ thr' = [thr EXCEPT ![t].held = Append(@, [on |-> Here(t).on, mode |-> Here(t).mode]),
                          ![t].at = @ + 1]
    /\ UNCHANGED LockRest

\* the guard goes out of scope
Release(t) ==
    /\ Inside(t)
    /\ Here(t).do = "release"
    /\ thr' = [thr EXCEPT ![t].held = SelectSeq(@, LAMBDA g : g.on # Here(t).on),
                          ![t].at = @ + 1]
    /\ UNCHANGED LockRest

\* the awaited future completes and the task goes on
Resume(t) ==
    /\ Inside(t)
    /\ Here(t).do = "await"
    /\ thr' = [thr EXCEPT ![t].at = @ + 1]
    /\ UNCHANGED LockRest

\* the operation returns
Return(t) ==
    /\ thr[t].path # <<>>
    /\ ~Inside(t)
    /\ thr' = [thr EXCEPT ![t] = Outside]
    /\ UNCHANGED LockRest

LocksInit ==
    /\ AccessIdle
    /\ RuntimeIdle
    /\ StoreIdle
    /\ send_cap = 0
    /\ calc = None
    /\ thr = [t \in LockTasks |-> Outside]

LocksNext ==
    \/ \E t \in LockTasks, op \in DOMAIN Operations : \E path \in Operations[op] :
          Enter(t, op, path)
    \/ \E t \in LockTasks : Acquire(t)
    \/ \E t \in LockTasks : Release(t)
    \/ \E t \in LockTasks : Resume(t)
    \/ \E t \in LockTasks : Return(t)

SpecLocks == LocksInit /\ [][LocksNext]_vars

\* which of the three kinds of lock a guard is on, "" for the others
LockKind(g) ==
    IF g.on = "registry" THEN "registry"
    ELSE IF g.on \in {"otp.reg"} THEN "otp"
    ELSE IF g.on \in {"sent_ids.reg", "sent_ids.ref"} THEN "sent_ids"
    ELSE ""

HeldOfThree(t) ==
    {i \in DOMAIN thr[t].held : LockKind(thr[t].held[i]) # ""}

\* C33: in every reachable state each task holds at most one of the registry
\* lock, a per-account OTP lock and a per-account sent-id lock; no operation
\* acquires one of them while holding another.
C33_LocksNeverNested ==
    \A t \in LockTasks : Cardinality(HeldOfThree(t)) <= 1

\* the task is at an await point
Suspended(t) == Inside(t) /\ Here(t).do = "await"

\* some task can take a step whenever some task is inside an operation
NoDeadlock ==
    (\E t \in LockTasks : thr[t].path # <<>>) =>
        \E t \in LockTasks :
            \/ ~Inside(t) /\ thr[t].path # <<>>
            \/ Inside(t) /\ Here(t).do # "acquire"
            \/ Inside(t) /\ Here(t).do = "acquire"
                  /\ Grantable(t, Here(t).on, Here(t).mode)

\* C34: no registry, OTP, sent-id or pairing-code lock is held at a
\* suspension point: a task suspended in a send, a download, an event
\* emission, a dispatch or a cancellation wait holds no lock, and no
\* interleaving of the operations deadlocks on the locks.
C34_NoLockAcrossAwait ==
    /\ \A t \in LockTasks : Suspended(t) => thr[t].held = <<>>
    /\ \A t \in LockTasks : ~Inside(t) => thr[t].held = <<>>
    /\ NoDeadlock

\* one task is suspended in the send that follows the OTP flow's two locked
\* blocks while the other holds the registry for writing
C34_Witness ==
    /\ thr["t1"].op = "handle_otp_flow"
    /\ Suspended("t1")
    /\ Here("t1").on = "client.send_message"
    /\ thr["t1"].at > 8
    /\ \E i \in DOMAIN thr["t2"].held : thr["t2"].held[i].mode = "w"

(***************************************************************************)
(* gateway, channel_events.rs: dispatch_to_chat and its typing heartbeat.  *)
(* SpecBeat: thr holds the dispatching task and the heartbeat task.  The   *)
(* heartbeat is polled when it can go on (weak fairness of its own steps); *)
(* the timer fires on time; nothing obliges chat.send or send_typing to    *)
(* return.                                                                 *)
(***************************************************************************)
\* the sleep of the heartbeat's select!, in seconds
TYPING_INTERVAL_SECS == 4

\* A plausible slip: the wait is a plain sleep.
select_ready_SleepOnly(heartbeat, done, clock) ==
    IF heartbeat.at = "select" /\ clock >= heartbeat.wake THEN {"sleep"} ELSE {}

\* the branches of the heartbeat's select! that are ready: the sleep once
\* its time has come, the receiver once done_tx was used or dropped
select_ready(heartbeat, done, clock) ==
    IF heartbeat.at # "select" THEN {}
    ELSE (IF clock >= heartbeat.wake THEN {"sleep"} ELSE {})
         \cup (IF done THEN {"done_rx"} ELSE {})

NoDispatch == [at |-> "none", done |-> FALSE, result |-> "none"]

\* the heartbeat: where it is, when its sleep ends, how many typing sends it
\* has started, when the last one returned and how long after that the next
\* one started, and how many it started after the completion signal
NoHeartbeat ==
    [at |-> "none", wake |-> 0, sends |-> 0, returned |-> 0, gap |-> 0,
     late |-> 0]

\* dispatch_to_chat up to its chat.send(params).await: with an outbound
\* sender the heartbeat is spawned first
DispatchToChat(has_outbound) ==
    /\ thr.dispatch.at = "none"
    /\ thr' = [dispatch |-> [NoDispatch EXCEPT !.at = "chat.send"],
               heartbeat |-> [NoHeartbeat EXCEPT
                                 !.at = IF has_outbound THEN "spawned" ELSE "none"]]
    /\ UNCHANGED LockRest

\* chat.send returns, an error is logged, and done_tx.send(()) follows
\* without an await between
ChatSendReturns(result) ==
    /\ thr.dispatch.at = "chat.send"
    /\ thr' = [thr EXCEPT !.dispatch = [at |-> "returned", done |-> TRUE,
                                        result |-> result]]
    /\ UNCHANGED LockRest

\* the top of the loop: outbound.send_typing is called, on the task's first
\* poll and whenever the select! ended by the sleep
SendTyping ==
    /\ \/ thr.heartbeat.at = "spawned"
       \/ "sleep" \in select_ready(thr.heartbeat, thr.dispatch.done, now)
    /\ thr' = [thr EXCEPT !.heartbeat.at = "send_typing",
                          !.heartbeat.sends = @ + 1,
                          !.heartbeat.gap = now - thr.heartbeat.returned,
                          !.heartbeat.late = IF thr.dispatch.done THEN @ + 1 ELSE @]
    /\ UNCHANGED LockRest

\* send_typing returns (a failure is only logged) and the select! is
\* entered: the receiver is ready at once when the signal has been given,
\* the new sleep is not
TypingReturns(ok) ==
    /\ thr.heartbeat.at = "send_typing"
    /\ thr' = [thr EXCEPT !.heartbeat.at = IF thr.dispatch.done THEN "exited" ELSE "select",
                          !.heartbeat.wake = now + TYPING_INTERVAL_SECS,
                          !.heartbeat.returned = now]
    /\ UNCHANGED LockRest

\* the select! ends by the receiver: break
ObserveDone ==
    /\ "done_rx" \in select_ready(thr.heartbeat, thr.dispatch.done, now)
    /\ thr' = [thr EXCEPT !.heartbeat.at = "exited"]
    /\ UNCHANGED LockRest

\* a second passes; a sleep that has run out is not slept through
BeatTick ==
    /\ now < MaxBeatClock
    /\ "sleep" \notin select_ready(thr.heartbeat, thr.dispatch.done, now)
    /\ Tick(1)

BeatInit ==
    /\ AccessIdle
    /\ RuntimeIdle
    /\ StoreIdle
    /\ send_cap = 0
    /\ calc = None
    /\ thr = [dispatch |-> NoDispatch, heartbeat |-> NoHeartbeat]

BeatNext ==
    \/ \E has_outbound \in BOOLEAN : DispatchToChat(has_outbound)
    \/ \E result \in {Ok, "Err"} : ChatSendReturns(result)
    \/ SendTyping
    \/ \E ok \in BOOLEAN : TypingReturns(ok)
    \/ ObserveDone
    \/ BeatTick

SpecBeat ==
    /\ BeatInit
    /\ [][BeatNext]_vars
    /\ WF_vars(SendTyping)
    /\ WF_vars(ObserveDone)

HeartbeatSpawned == thr.heartbeat.at # "none"

HeartbeatOver == thr.heartbeat.at = "exited"

\* a typing send is started on the first poll, and each later one when the
\* sleep that followed the one before has run out
SendsEveryInterval ==
    /\ HeartbeatSpawned ~> thr.heartbeat.sends >= 1
    /\ [](thr.heartbeat.sends >= 2 => thr.heartbeat.gap = 4)

Backends == {"mem", "sled"}

StoreTasks == {"c1", "c2"}

NoCall == [op |-> "none", backend |-> "", group |-> <<>>, keys |-> {}, out |-> {}]

\* the backend's tree of forget marks
marks_of(backend) ==
    IF backend = "mem" THEN mem.trees["sender_key_forget_marks"]
    ELSE sled["sender_key_forget_marks"]

\* the pass over the map: the keys under the group's prefix, and the
\* participants the call is going to return
ConsumeCollect(t, backend, group_jid) ==
    /\ thr.calls[t].op = "none"
    /\ thr' = [thr EXCEPT !.calls[t] =
                  [op |-> "consume", backend |-> backend, group |-> group_jid,
                   keys |-> marked_keys(marks_of(backend), group_jid),
                   out |-> marked_keys(marks_of(backend), group_jid)]]
    /\ UNCHANGED <<accessVars, runtimeVars, storeVars, calc>>

\* the removal of one collected key, whether or not it is still there
ConsumeRemove(t) ==
    /\ thr.calls[t].op = "consume"
    /\ \E k \in thr.calls[t].keys :
          /\ IF thr.calls[t].backend = "mem"
             THEN /\ mem' = [mem EXCEPT !.trees["sender_key_forget_marks"] = MapRemove(@, k)]
                  /\ UNCHANGED sled
             ELSE /\ sled' = [sled EXCEPT !["sender_key_forget_marks"] = MapRemove(@, k)]
                  /\ UNCHANGED mem
          /\ thr' = [thr EXCEPT !.calls[t].keys = @ \ {k}]
    /\ UNCHANGED <<family, sled_handle, store_epoch, store_ret, shadow, accessVars,
                   runtimeVars, calc>>

\* the call returns the participants of the keys it collected
ConsumeReturn(t) ==
    /\ thr.calls[t].op = "consume"
    /\ thr.calls[t].keys = {}
    /\ LET call == thr.calls[t]
       IN  /\ thr' = [thr EXCEPT
                         !.calls[t] = NoCall,
                         !.returned[call.backend] =
                             [k \in DOMAIN @ \cup call.out |->
                                 (IF k \in DOMAIN @ THEN @[k] ELSE 0)
                                 + (IF k \in call.out THEN 1 ELSE 0)]]
           /\ store_ret' = [op |-> "consume", key |-> call.group,
                            mem |-> IF call.backend = "mem" THEN call.out ELSE {},
                            sled |-> IF call.backend = "sled" THEN call.out ELSE {},
                            expect |-> {}]
    /\ UNCHANGED <<family, mem, sled, sled_handle, store_epoch, shadow, accessVars,
                   runtimeVars, calc>>

MarksInit ==
    /\ AccessIdle
    /\ RuntimeIdle
    /\ send_cap = 0
    /\ calc = None
    /\ thr = [calls |-> [t \in StoreTasks |-> NoCall],
              returned |-> [b \in Backends |-> EmptyMap]]
    /\ family = "sender_key_forget_marks"
    /\ mem = MemoryStore_new
    /\ sled = EmptyTrees
    /\ sled_handle = Some(SledStore_open(EmptyTrees))
    /\ store_epoch = 0
    /\ store_ret = [NoRet EXCEPT !.mem = {}, !.sled = {}, !.expect = {}]
    /\ shadow = <<>>

\* the mark was recorded before
MarkRecorded(group_jid, participant) ==
    group_jid \in DOMAIN shadow /\ participant \in shadow[group_jid]

\* the group the tasks contend for
MarkGroups == {<<"g", "1">>}

MarksNext ==
    \/ \E g \in MarkGroups, pt \in Participants :
          ~MarkRecorded(g, pt) /\ MarkForgetSenderKey(g, pt)
    \/ \E t \in StoreTasks, b \in Backends, g \in MarkGroups : ConsumeCollect(t, b, g)
    \/ \E t \in StoreTasks : ConsumeRemove(t)
    \/ \E t \in StoreTasks : ConsumeReturn(t)

SpecMarks == MarksInit /\ [][MarksNext]_vars

\* how many consume calls on the backend have returned the mark
TimesReturned(backend, key) ==
    IF key \in DOMAIN thr.returned[backend] THEN thr.returned[backend][key] ELSE 0

\* no consume call on the backend is under way
Quiet(backend) ==
    \A t \in StoreTasks : thr.calls[t].op = "consume" => thr.calls[t].backend # backend

\* C36: for any interleaving of mark_forget_sender_key and
\* consume_forget_marks calls on the same group, on either backend, each
\* recorded mark is returned by exactly one consume call: never by two
\* concurrent consumes, and never removed without being returned.
C36_MarksConsumedOnce ==
    \A b \in Backends, g \in DOMAIN shadow : \A pt \in shadow[g] :
        LET key == colon_key(g, pt)
        IN  /\ TimesReturned(b, key) <= 1
            /\ (Quiet(b) /\ key \notin DOMAIN marks_of(b)) => TimesReturned(b, key) = 1

(***************************************************************************)
(* SledStore::create under concurrent callers.  The counter in memory is   *)
(* advanced by one atomic fetch_add; the write of the counter to the       *)
(* "device_id" tree is a second step of the same call, and nothing orders  *)
(* the writes of two calls.                                                *)
(***************************************************************************)
\* the tasks that allocate device ids
IdTasks == {"c1", "c2", "c3"}

\* no create call under way in the task
NoCreate == [op |-> "none", id |-> 0]

\* the ids the create calls so far have returned, in order of return
Returned == thr.returned

\* the ids fetched so far: returned, or held by a call under way
Fetched == Len(thr.returned) + Cardinality({t \in IdTasks : thr.calls[t].op = "create"})

\* device_id.fetch_add(1, SeqCst): the call takes the counter's value
CreateFetch(t) ==
    /\ thr.calls[t].op = "none"
    /\ is_some(sled_handle)
    /\ Fetched < MaxCreates
    /\ LET sid == unwrap(sled_handle).device_id
       IN  /\ sled_handle' = Some([unwrap(sled_handle) EXCEPT !.device_id = wrapping_inc(sid)])
           /\ thr' = [thr EXCEPT !.calls[t] = [op |-> "create", id |-> sid]]
    /\ UNCHANGED <<family, mem, sled, store_epoch, store_ret, shadow, accessVars,
                   runtimeVars, calc>>

\* tree.insert(b"counter", (id + 1).to_le_bytes()) and the return of the id
CreatePersist(t) ==
    /\ thr.calls[t].op = "create"
    /\ LET id == thr.calls[t].id
       IN  /\ sled' = [sled EXCEPT !["device_id"] =
                          MapPut(@, CounterKey, to_le_bytes(wrapping_inc(id)))]
           /\ thr' = [thr EXCEPT !.calls[t] = NoCreate,
                                 !.returned = Append(@, id)]
           /\ store_ret' = [op |-> "create", key |-> <<>>, mem |-> id, sled |-> id,
                            expect |-> Len(thr.returned)]
    /\ UNCHANGED <<family, mem, sled_handle, store_epoch, shadow, accessVars,
                   runtimeVars, calc>>

\* every create call has completed
AllCompleted == \A t \in IdTasks : thr.calls[t].op = "none"

\* the store is dropped once no call borrows it, and opened again
IdsReopen ==
    /\ AllCompleted
    /\ SledReopen

IdsInit ==
    /\ AccessIdle
    /\ RuntimeIdle
    /\ send_cap = 0
    /\ calc = None
    /\ thr = [calls |-> [t \in IdTasks |-> NoCreate], returned |-> <<>>]
    /\ family = "device_id"
    /\ mem = MemoryStore_new
    /\ sled = EmptyTrees
    /\ sled_handle = Some(SledStore_open(EmptyTrees))
    /\ store_epoch = 0
    /\ store_ret = [NoRet EXCEPT !.mem = 0, !.sled = 0, !.expect = 0]
    /\ shadow = <<>>

IdsNext ==
    \/ \E t \in IdTasks : CreateFetch(t)
    \/ \E t \in IdTasks : CreatePersist(t)
    \/ IdsReopen

SpecIds == IdsInit /\ [][IdsNext]_vars

\* the counter in the "device_id" tree, 0 when it was never written
PersistedCounter == SledStore_open(sled).device_id

\* C37: on the durable backend, for any interleaving of concurrent create
\* calls all returned ids are distinct and, once all calls have completed,
\* the persisted counter is greater than every id handed out, so that a
\* create after a reopen returns an id never returned before.
C37_IdsUniqueUnderConcurrency ==
    /\ \A i, j \in DOMAIN Returned : Returned[i] = Returned[j] => i = j
    /\ AllCompleted => \A i \in DOMAIN Returned : PersistedCounter > Returned[i]

(***************************************************************************)
(* The two indices of the LID/phone-number mapping, read through the       *)
(* lookups of both backends.                                               *)
(***************************************************************************)
\* the statement of the two lookups over one backend's pair of lookups
IndicesConsistent(get_lid(_), get_pn(_)) ==
    /\ \A p \in Phones :
          is_some(get_pn(p)) => unwrap(get_pn(p)).phone_number = p
    /\ \A l \in Lids :
          is_some(get_lid(l)) =>
              /\ unwrap(get_lid(l)).lid = l
              /\ get_pn(unwrap(get_lid(l)).phone_number) = get_lid(l)

\* C38: after any sequence of put_lid_mapping calls, re-mappings included,
\* whenever get_pn_mapping(p) returns an entry e then e.phone_number = p, and
\* whenever get_lid_mapping(l) returns an entry e then e.lid = l and
\* get_pn_mapping(e.phone_number) returns e; on both backends.
C38_IndicesConsistent ==
    LET mem_lid(l) == mem_get_lid_mapping(mem, l)
        mem_pn(p) == mem_get_pn_mapping(mem, p)
        sled_lid(l) == sled_get_lid_mapping(sled, l)
        sled_pn(p) == sled_get_pn_mapping(sled, p)
    IN  /\ IndicesConsistent(mem_lid, mem_pn)
        /\ IndicesConsistent(sled_lid, sled_pn)

(***************************************************************************)
(* start_account for an id that is already registered.  The store path is  *)
(* config.store_path when given (connection.rs 30-33), so a start whose     *)
(* config names a directory other than the one the running account holds   *)
(* open gets past SledStore::open, and start_connection goes on to         *)
(* map.insert under the same id and to spawn a second task.                *)
(***************************************************************************)
StartRegistered(a, config, message_log, event_sink) ==
    /\ a \in DOMAIN accounts
    /\ Len(tokens) < MaxStarts
    /\ LET token == Len(tokens) + 1
           state == AccountState(config, message_log, event_sink, token)
       IN  /\ accounts' = registered(accounts, a, state, Ok)
           /\ state_ref' = MapPut(state_ref, a, state)
           /\ tokens' = Append(tokens, FALSE)
           /\ tasks' = tasks \cup {Task(a, token)}
           /\ life' = [LifeOp("start", a, Ok) EXCEPT
                          !.conn = MapPut(@, a, None),
                          !.qr = MapPut(@, a, None)]
    /\ UNCHANGED <<now, next_id, send_cap, pc, last, otp_calls, probe_cache,
                   accessVars, storeVars, benchVars>>

RestartNext ==
    \/ \E a \in AccountIds : StartAccount(a, DefaultConfig, TRUE, TRUE, Ok)
    \/ \E a \in AccountIds : StartRegistered(a, DefaultConfig, TRUE, TRUE)
    \/ \E a \in AccountIds : StopAccount(a)
    \/ \E t \in TaskTokens : BotRun(t, Ok)
    \/ \E t \in TaskTokens : TaskExit(t)

SpecRestart == LifeInit /\ [][RestartNext]_vars

\* the task has not ended and its token has not been signalled
StillRunning(task) == task.stage # "exited" /\ ~tokens[task.cancel]

\* C39: after any sequence of start_account and stop_account calls, starts
\* of a registered id included, every event task that is still running
\* belongs to an account id present in the registry, and the token stored
\* under that id is the token the task waits on.  A task whose token has
\* been signalled counts as stopped.
C39_RunningTasksStoppable ==
    \A task \in tasks :
        StillRunning(task) =>
            /\ task.account \in DOMAIN accounts
            /\ accounts[task.account].cancel = task.cancel

(***************************************************************************)
(* outbound.rs: send_stream event by event.  stream.recv() is awaited in a *)
(* loop; each event updates the text or ends the loop; after the loop the  *)
(* text, when there is one, goes to send_text.  thr holds the call: the    *)
(* events the sender puts on the channel, those not yet received, the text *)
(* so far and where the call is.                                           *)
(***************************************************************************)
\* A plausible slip: an error's text replaces what was collected.
stream_step_ErrorReplaces(text, event) ==
    IF event.type = "Delta" THEN [text |-> text \o event.text, stop |-> FALSE]
    ELSE IF event.type = "Done" THEN [text |-> text, stop |-> TRUE]
    ELSE [text |-> event.text, stop |-> TRUE]

\* the match of the loop body: the text after the event, and whether the
\* loop breaks
stream_step(text, event) ==
    IF event.type = "Delta" THEN [text |-> text \o event.text, stop |-> FALSE]
    ELSE IF event.type = "Done" THEN [text |-> text, stop |-> TRUE]
    ELSE [text |-> IF text = <<>> THEN event.text ELSE text, stop |-> TRUE]

NoStream ==
    [stage |-> "idle", account |-> "", jid_ok |-> FALSE, stream |-> <<>>, rest |-> <<>>,
     text |-> <<>>]

\* send_stream is called with a receiver on which the events will arrive
SendStreamCall(a, jid_ok, stream) ==
    /\ thr.stage = "idle" \/ (thr.stage = "ended" /\ calc # None)
    /\ thr' = [stage |-> "recv", account |-> a, jid_ok |-> jid_ok, stream |-> stream,
               rest |-> stream, text |-> <<>>]
    /\ calc' = None
    /\ UNCHANGED <<accessVars, runtimeVars, storeVars>>

\* stream.recv().await returns: None at the end of the stream, or the next
\* event, which the loop body handles
StreamRecv ==
    /\ thr.stage = "recv"
    /\ thr' = IF thr.rest = <<>>
              THEN [thr EXCEPT !.stage = "ended"]
              ELSE LET step == stream_step(thr.text, Head(thr.rest))
                   IN  [thr EXCEPT !.rest = Tail(@),
                                   !.text = step.text,
                                   !.stage = IF step.stop THEN "ended" ELSE "recv"]
    /\ UNCHANGED <<accessVars, runtimeVars, storeVars, calc>>

\* after the loop: Ok(()) for an empty text, else send_text and its result
StreamSend(ok) ==
    /\ thr.stage = "ended"
    /\ calc = None
    /\ ok => next_id <= send_cap
    /\ Outbound("send_stream", thr.account,
                IF thr.text = <<>>
                THEN Sent(<<>>, Ok, FALSE)
                ELSE send_text(accounts, thr.account, thr.jid_ok, thr.text, ok))

\* the streams of WireStreams, and an error after a delta that carried no text
StreamInputs == WireStreams \cup {<<Delta(<<>>), Error(<<"boom">>)>>}

StreamInit ==
    /\ AccessIdle
    /\ RuntimeIdle
    /\ StoreIdle
    /\ send_cap = MaxSends
    /\ calc = None
    /\ thr = NoStream

StreamNext ==
    \/ \E a \in AccountIds : StartAccount(a, DefaultConfig, TRUE, TRUE, Ok)
    \/ \E a \in WireAccounts, jid_ok \in BOOLEAN, stream \in StreamInputs :
          SendStreamCall(a, jid_ok, stream)
    \/ StreamRecv
    \/ \E ok \in BOOLEAN : StreamSend(ok)

SpecStream == StreamInit /\ [][StreamNext]_vars

\* the position of the first Done or Error of the stream, its length when
\* there is none
FirstEnd(stream) ==
    IF \E i \in DOMAIN stream : stream[i].type # "Delta"
    THEN CHOOSE i \in DOMAIN stream :
             /\ stream[i].type # "Delta"
             /\ \A j \in 1..(i - 1) : stream[j].type = "Delta"
    ELSE Len(stream)

\* the texts of the deltas among the events, joined in order
RECURSIVE DeltaText(_)
DeltaText(events) ==
    IF events = <<>> THEN <<>>
    ELSE (IF Head(events).type = "Delta" THEN Head(events).text ELSE <<>>)
         \o DeltaText(Tail(events))

\* the call has returned
StreamReturned == thr.stage = "ended" /\ calc # None

\* the events up to and including the first Done or Error
Consumed == SubSeq(thr.stream, 1, FirstEnd(thr.stream))

\* the loop was ended by an Error event
EndedByError == Consumed # <<>> /\ Consumed[Len(Consumed)].type = "Error"

\* what the returned call did, given the text it was to send: nothing before
\* the loop ended, no event received after the first Done or Error, nothing
\* sent and success for an empty text, and else that text as one message
\* whenever the call got as far as the transport
StreamOutcome(due) ==
    /\ thr.stage = "recv" => calc = None
    /\ StreamReturned =>
          /\ Len(calc.handed) <= 1
          /\ thr.rest = SubSeq(thr.stream, FirstEnd(thr.stream) + 1, Len(thr.stream))
          /\ due = <<>> => calc.handed = <<>> /\ calc.result = Ok
          /\ (due # <<>> /\ calc.result \in {Ok, "unavailable"}) =>
                calc.handed = <<TextMessage(due \o BOT_WATERMARK)>>

\* C40 as stated: the error text is sent when no delta was received, and
\* else the joined deltas.
C40_StreamAsWritten ==
    StreamOutcome(IF EndedByError /\ \A i \in DOMAIN Consumed : Consumed[i].type # "Delta"
                  THEN Consumed[Len(Consumed)].text
                  ELSE DeltaText(Consumed))

\* C40: send_stream sends at most one message per stream: it consumes events
\* until Done, Error or the end of the stream and then sends once the deltas
\* received so far joined in arrival order; on an Error with no text
\* collected (no delta, or deltas without text) it sends the error text
\* instead; with an empty text it sends nothing and returns success; events
\* after Done or Error are not consumed.
C40_OneMessagePerStream ==
    StreamOutcome(IF EndedByError /\ DeltaText(Consumed) = <<>>
                  THEN Consumed[Len(Consumed)].text
                  ELSE DeltaText(Consumed))

\* a stream of a delta, an error and a further delta has been sent as the
\* delta's text, the last event left on the channel
C40_Witness ==
    /\ StreamReturned
    /\ thr.stream = <<Delta(Hi), Error(<<"boom">>), Delta(Hi)>>
    /\ thr.rest = <<Delta(Hi)>>
    /\ calc.result = Ok
    /\ calc.handed = <<TextMessage(Hi \o BOT_WATERMARK)>>
====
